---------------------------- MODULE Spec2Model ----------------------------
(***************************************************************************)
(* TelegBotCardNum: the conversation bot of src/main.py and the access     *)
(* gate of src/bot.py as state machines.                                   *)
(*                                                                         *)
(* main.py.  The state is the database (users, persons, accounts and the   *)
(* two SERIAL sequences), and per chat: the ConversationHandler state, the *)
(* context.user_data dict and the reply keyboard currently displayed.  One *)
(* step handles one inbound update to completion: the ConversationHandler  *)
(* picks the handler (handlers of the current state first, then fallbacks, *)
(* in order) and the handler body runs, together with every handler it     *)
(* awaits.                                                                 *)
(*                                                                         *)
(* Texts are sequences of tokens.  A token is a character (digit, space,   *)
(* parenthesis, letter) or a whole label whose inner structure no code     *)
(* path looks at (a button caption, a command word).                       *)
(*                                                                         *)
(* Library semantics taken as the source reads: filters.State(X) passes    *)
(* when the conversation is in state X; update.message.reply_keyboard is   *)
(* the keyboard currently displayed; the conversation-state names are      *)
(* pairwise distinct values; a handler that raises leaves the conversation *)
(* state as it was (python-telegram-bot stores the state only when the     *)
(* callback returns).                                                      *)
(*                                                                         *)
(* Ten specifications.  Spec: two chats, the admin's and another, send     *)
(* the inputs the bot asks for while everything is up.  SpecIntruder: the  *)
(* same, the other chat also typing the admin flow's captions out of turn. *)
(* SpecSession: the admin's chat alone sends any input, asked for or not,  *)
(* while connections to the database and sends may fail.  SpecShared: both *)
(* chats work on persons and accounts, one in the middle of a flow while   *)
(* the other writes.  SpecOutage: the same while connections and sends may *)
(* fail.  SpecData: one chat types names and field values (an IBAN with    *)
(* and without its IR prefix) into up to two accounts.  SpecAbandon: one   *)
(* chat with two persons walks away from the Delete flow and comes back.   *)
(* SpecRename: two chats with two names, one renaming while the other      *)
(* deletes.  SpecHome: one chat that may head for the main menu from any   *)
(* state, with fairness of doing so.                                       *)
(* SpecBot: src/bot.py, a separate program with its own users table.       *)
(***************************************************************************)
EXTENDS Integers, Sequences, FiniteSets, TLC

(***************************************************************************)
(* Bounds of the model.                                                    *)
(***************************************************************************)
\* largest value the persons id sequence may reach
MaxPersonSeq == 2
\* largest value the accounts id sequence may reach
MaxAccountSeq == 1
\* detours the users take in one run
MaxDetour == 1
\* failures of the environment in one run
MaxFault == 1
\* user ids that talk to src/bot.py are 1..MaxBotUser
MaxBotUser == 3
\* accounts ever inserted where the field values are typed
MaxDataAccountSeq == 2
\* field values (texts and photos) stored or buffered at a time there
MaxFilled == 2

\* the chats of the model: the admin's and one more
ChatIds == {1, 2}

\* src/main.py:26 (value supplied by the environment)
ADMIN_TELEGRAM_ID == 1
\* src/bot.py:17 (value supplied by the environment)
ADMIN_ID == 1

(***************************************************************************)
(* Conversation states, src/main.py:32-43.                                 *)
(***************************************************************************)
END == "END"
States ==
    { "MAIN_MENU",
      "ADMIN_MENU", "ADMIN_ADD_USER", "ADMIN_REMOVE_USER",
      "VIEW_CHOOSE_PERSON", "VIEW_CHOOSE_ACCOUNT",
      "EDIT_MENU",
      "ADD_CHOOSE_PERSON_TYPE", "ADD_NEW_PERSON_NAME", "ADD_CHOOSE_EXISTING_PERSON",
      "ADD_ACCOUNT_BANK", "ADD_ACCOUNT_NUMBER", "ADD_ACCOUNT_CARD",
      "ADD_ACCOUNT_SHABA", "ADD_ACCOUNT_PHOTO",
      "DELETE_CHOOSE_TYPE", "DELETE_CHOOSE_PERSON", "DELETE_CONFIRM_PERSON",
      "DELETE_CHOOSE_ACCOUNT_FOR_PERSON", "DELETE_CHOOSE_ACCOUNT",
      "DELETE_CONFIRM_ACCOUNT",
      "CHANGE_CHOOSE_PERSON", "CHANGE_CHOOSE_TARGET", "CHANGE_PROMPT_PERSON_NAME",
      "CHANGE_SAVE_PERSON_NAME",
      "CHANGE_CHOOSE_ACCOUNT", "CHANGE_CHOOSE_FIELD", "CHANGE_PROMPT_FIELD_VALUE",
      "CHANGE_SAVE_FIELD_VALUE" }

(***************************************************************************)
(* Button captions and commands, each one token.                           *)
(***************************************************************************)
HOME_BUTTON == <<"HOME">>
BACK_BUTTON == <<"BACK">>
SKIP_BUTTON == <<"SKIP">>

B_VIEW == <<"view_info">>
B_EDIT == <<"edit">>
B_ADMIN == <<"admin">>
B_VIEW_USERS == <<"view_users">>
B_ADD_USER == <<"add_user">>
B_REMOVE_USER == <<"remove_user">>
B_ADD == <<"add">>
B_CHANGE == <<"change">>
B_DELETE == <<"delete">>
B_NEW_PERSON == <<"new_person">>
B_EXISTING_PERSON == <<"existing_person">>
B_DELETE_PERSON == <<"delete_person">>
B_DELETE_ACCOUNT == <<"delete_account">>
B_YES == <<"yes_delete">>
B_NO == <<"no_cancel">>
B_RENAME_PERSON == <<"rename_person">>
B_EDIT_ACCOUNT == <<"edit_account">>

F_BANK == <<"f_bank_name">>
F_ACCOUNT == <<"f_account_number">>
F_CARD == <<"f_card_number">>
F_SHABA == <<"f_shaba_number">>
F_PHOTO == <<"f_card_photo">>

FIELD_TO_COLUMN_MAP ==
    [t \in {F_BANK, F_ACCOUNT, F_CARD, F_SHABA, F_PHOTO} |->
        CASE t = F_BANK -> "bank_name"
          [] t = F_ACCOUNT -> "account_number"
          [] t = F_CARD -> "card_number"
          [] t = F_SHABA -> "shaba_number"
          [] t = F_PHOTO -> "card_photo_id"]

Columns == {"bank_name", "account_number", "card_number", "shaba_number", "card_photo_id"}

CMD_START == <<"/start">>
CMD_CANCEL == <<"/cancel">>
CommandTokens == {"/start", "/cancel"}

(***************************************************************************)
(* Python values.  An optional value (None or v) is <<>> or <<v>>; a dict  *)
(* is a function whose domain is the set of keys present.                  *)
(***************************************************************************)
None == <<>>
Some(v) == <<v>>
IsNone(o) == o = <<>>
The(o) == o[1]

EmptyDict == <<>>
Has(d, k) == k \in DOMAIN d
DictSet(d, k, v) == [x \in (DOMAIN d) \cup {k} |-> IF x = k THEN v ELSE d[x]]
DictPop(d, k) == [x \in (DOMAIN d) \ {k} |-> d[x]]

Digits == {"0", "1", "2", "3", "4", "5", "6", "7", "8", "9"}
DigitVal(t) ==
    CASE t = "0" -> 0 [] t = "1" -> 1 [] t = "2" -> 2 [] t = "3" -> 3 [] t = "4" -> 4
      [] t = "5" -> 5 [] t = "6" -> 6 [] t = "7" -> 7 [] t = "8" -> 8 [] t = "9" -> 9
DigitTok(n) ==
    CASE n = 0 -> "0" [] n = 1 -> "1" [] n = 2 -> "2" [] n = 3 -> "3" [] n = 4 -> "4"
      [] n = 5 -> "5" [] n = 6 -> "6" [] n = 7 -> "7" [] n = 8 -> "8" [] n = 9 -> "9"

\* str(n) for n >= 0
RECURSIVE Str(_)
Str(n) == IF n < 10 THEN <<DigitTok(n)>> ELSE Str(n \div 10) \o <<DigitTok(n % 10)>>

\* text.strip(chars): leading and trailing tokens in chars removed
RECURSIVE LStrip(_, _)
LStrip(t, chars) ==
    IF t # <<>> /\ t[1] \in chars THEN LStrip(Tail(t), chars) ELSE t
RECURSIVE RStrip(_, _)
RStrip(t, chars) ==
    IF t # <<>> /\ t[Len(t)] \in chars THEN RStrip(SubSeq(t, 1, Len(t) - 1), chars) ELSE t
StripChars(t, chars) == RStrip(LStrip(t, chars), chars)
Strip(t) == StripChars(t, {" "})

\* text.split('(')[-1]: what follows the last "(" (the whole text when there is none)
SplitLast(t, sep) ==
    LET idx == {i \in 1..Len(t) : t[i] = sep}
    IN  IF idx = {} THEN t
        ELSE LET cut == CHOOSE i \in idx : \A j \in idx : j <= i
             IN  SubSeq(t, cut + 1, Len(t))

RECURSIVE DigitsVal(_)
DigitsVal(t) == IF t = <<>> THEN 0 ELSE 10 * DigitsVal(SubSeq(t, 1, Len(t) - 1)) + DigitVal(t[Len(t)])

\* int(text): None stands for ValueError.  Surrounding whitespace is accepted,
\* then a non-empty run of decimal digits.
ParseInt(t) ==
    LET b == Strip(t)
    IN  IF b # <<>> /\ \A i \in 1..Len(b) : b[i] \in Digits
        THEN Some(DigitsVal(b))
        ELSE None

(***************************************************************************)
(* Program state.                                                          *)
(*   users      telegram_id -> first_name              (table users)       *)
(*   persons    id -> name                             (table persons)     *)
(*   accounts   id -> row                              (table accounts)    *)
(*   pseq, aseq last value of persons_id_seq / accounts_id_seq             *)
(*   conv       chat -> conversation state (END: no conversation)          *)
(*   udata      chat -> context.user_data                                  *)
(*   kbd        chat -> captions of the reply keyboard displayed           *)
(*   last       what the last handled update was and what it produced      *)
(*   detours, faults   how many detours the users took and how many        *)
(*              failures the environment produced so far                   *)
(***************************************************************************)
\* src/main.py: the three tables and the two id sequences of the database,
\* each chat's conversation state, user_data and reply keyboard, the update
\* handled last, and the detours and failures the run has seen
VARIABLES users, persons, accounts, pseq, aseq, conv, udata, kbd, last, detours, faults
\* src/bot.py: its users table, whether a message with the admin's inline
\* keyboard exists, and the update handled last
VARIABLES bot_users, bot_keyboard, bot_last

main_vars == <<users, persons, accounts, pseq, aseq, conv, udata, kbd, last, detours, faults>>
bot_vars == <<bot_users, bot_keyboard, bot_last>>
vars == <<main_vars, bot_vars>>

\* first_name of the Telegram account behind a chat id
FirstName(c) == <<"U", DigitTok(c)>>
NAME_ADMIN == <<"Admin">>
NAME_NA == <<"N/A">>
PHOTO_ID == <<"file1">>

(***************************************************************************)
(* A handler is an operator from (s, u) to s: s is the program state as    *)
(* the handler sees it (the database, the caller's user_data and keyboard, *)
(* the replies sent so far, the state it returns), u is the update with    *)
(* what the environment does while it is handled (u.db: connections        *)
(* succeed; u.send: sends to other chats and photo sends succeed).         *)
(***************************************************************************)
RAISE == "RAISE"

Reply(s, tag) == [s EXCEPT !.out = Append(@, tag)]
ReplyKb(s, tag, kb) == [s EXCEPT !.out = Append(@, tag), !.kbd = kb]
Ret(s, st) == [s EXCEPT !.ret = st]
ConnFailed(s) == [s EXCEPT !.dbfail = TRUE]
SendFailed(s) == [s EXCEPT !.sendfail = TRUE]
SetUd(s, k, v) == [s EXCEPT !.ud = DictSet(@, k, v)]
PopUd(s, k) == [s EXCEPT !.ud = DictPop(@, k)]
ClearUd(s) == [s EXCEPT !.ud = EmptyDict]
Raise(s) == [s EXCEPT !.ret = RAISE]

IsText(u) == IsNone(u.photo)
IsCommand(u) == IsText(u) /\ u.text # <<>> /\ u.text[1] \in CommandTokens

\* is_authorized without the SELECT: any chat passes while the database is up
is_authorized_any(s, u, uid) == u.db

is_authorized(s, u, uid) == u.db /\ uid \in DOMAIN s.users

\* is_admin without the comparison
is_admin_any(uid) == TRUE

is_admin(uid) == uid = ADMIN_TELEGRAM_ID

\* the f-string of get_accounts_for_person_from_db
OrNA(o) == IF IsNone(o) \/ The(o) = <<>> THEN NAME_NA ELSE The(o)
AccountKey(row, id) ==
    OrNA(row.bank_name) \o <<" ", "-", " ">> \o OrNA(row.card_number)
        \o <<" ", "(">> \o Str(id) \o <<")">>

\* f"{fn} ({tid})" of admin_prompt_remove_user
UserButton(fn, tid) == fn \o <<" ", "(">> \o Str(tid) \o <<")">>

\* context.user_data['persons_list'] = {name: id}; the rows fetched are s.persons
get_persons_from_db(s, u) ==
    IF ~u.db THEN ConnFailed(s)
    ELSE SetUd(s, "persons_list",
               [n \in {s.persons[p] : p \in DOMAIN s.persons} |->
                    CHOOSE p \in DOMAIN s.persons : s.persons[p] = n])

\* the SELECT without its WHERE person_id clause
AccountsOf_all(s, pid) == DOMAIN s.accounts

AccountsOf(s, pid) == {a \in DOMAIN s.accounts : s.accounts[a].person_id = pid}

\* pid is an optional id: WHERE person_id = NULL selects nothing
get_accounts_for_person_from_db(s, u, pid) ==
    IF ~u.db THEN ConnFailed(s)
    ELSE LET rows == IF IsNone(pid) THEN {} ELSE AccountsOf(s, The(pid))
         IN  SetUd(s, "accounts_list",
                   [k \in {AccountKey(s.accounts[a], a) : a \in rows} |->
                        CHOOSE a \in rows : AccountKey(s.accounts[a], a) = k])

\* context.user_data.get(list, {}).get(text): an optional id
Lookup(s, list, text) ==
    IF Has(s.ud, list) /\ text \in DOMAIN s.ud[list] THEN Some(s.ud[list][text]) ELSE None

PersonButtons(s) == IF Has(s.ud, "persons_list") THEN DOMAIN s.ud["persons_list"] ELSE {}
AccountButtons(s) == IF Has(s.ud, "accounts_list") THEN DOMAIN s.ud["accounts_list"] ELSE {}

KB_MAIN == {B_VIEW, B_EDIT, B_ADMIN}

start(s, u) ==
    IF ~is_authorized(s, u, u.chat)
    THEN Ret(Reply(IF u.db THEN s ELSE ConnFailed(s), "access_denied"), END)
    ELSE LET s1 == [s EXCEPT !.users = DictSet(@, u.chat, FirstName(u.chat))]
         IN  Ret(ReplyKb(s1, "welcome", KB_MAIN), "MAIN_MENU")

main_menu(s, u) == start(ClearUd(s), u)

KB_ADMIN == {B_VIEW_USERS, B_ADD_USER, B_REMOVE_USER, HOME_BUTTON}

\* the admin menu opened without asking who pressed
admin_menu_open(s, u) == Ret(ReplyKb(s, "admin_menu", KB_ADMIN), "ADMIN_MENU")

admin_menu(s, u) ==
    IF ~is_admin(u.chat)
    THEN Ret(Reply(s, "admin_only"), "MAIN_MENU")
    ELSE Ret(ReplyKb(s, "admin_menu", KB_ADMIN), "ADMIN_MENU")

admin_view_users(s, u) ==
    IF ~u.db THEN Ret(Reply(ConnFailed(s), "db_error"), "ADMIN_MENU")
    ELSE Ret(Reply(s, IF DOMAIN s.users # {} THEN "users_list" ELSE "no_users"), "ADMIN_MENU")

admin_prompt_add_user(s, u) ==
    Ret(ReplyKb(s, "prompt_user_id", {BACK_BUTTON}), "ADMIN_ADD_USER")

admin_add_user(s, u) ==
    LET id == ParseInt(u.text)
    IN  IF IsNone(id) THEN Ret(Reply(s, "invalid_id"), "ADMIN_ADD_USER")
        ELSE IF ~u.db THEN admin_menu(Reply(ConnFailed(s), "db_error"), u)
        ELSE IF The(id) \in DOMAIN s.users THEN admin_menu(Reply(s, "user_exists"), u)
        ELSE LET s1 == [s EXCEPT !.users = DictSet(@, The(id), NAME_NA)]
                 s2 == IF u.send
                       THEN Reply(Reply(s1, "notify_granted"), "user_added_notified")
                       ELSE Reply(SendFailed(s1), "user_added_notify_failed")
             IN  admin_menu(s2, u)

admin_prompt_remove_user(s, u) ==
    IF ~u.db THEN admin_menu(ConnFailed(s), u)
    ELSE LET others == DOMAIN s.users \ {ADMIN_TELEGRAM_ID}
         IN  IF others = {} THEN admin_menu(Reply(s, "no_users_to_remove"), u)
             ELSE Ret(ReplyKb(s, "prompt_remove",
                              {UserButton(s.users[t], t) : t \in others} \cup {BACK_BUTTON}),
                      "ADMIN_REMOVE_USER")

\* int(text.split('(')[-1].strip(')'))
RemoveTarget(text) == ParseInt(StripChars(SplitLast(text, "("), {")"}))

admin_remove_user(s, u) ==
    LET id == RemoveTarget(u.text)
    IN  IF IsNone(id) THEN Ret(Reply(s, "invalid_choice"), "ADMIN_REMOVE_USER")
        ELSE IF ~u.db THEN admin_menu(ConnFailed(s), u)
        ELSE IF The(id) \in DOMAIN s.users
        THEN LET s1 == Reply([s EXCEPT !.users = DictPop(@, The(id))], "user_removed")
             IN  admin_menu(IF u.send THEN Reply(s1, "notify_revoked") ELSE SendFailed(s1), u)
        ELSE admin_menu(Reply(s, "user_not_found"), u)

(***************************************************************************)
(* View flow.                                                              *)
(***************************************************************************)
view_choose_person(s, u) ==
    LET s1 == get_persons_from_db(s, u)
    IN  IF ~u.db \/ DOMAIN s.persons = {}
        THEN start(Reply(s1, "no_persons"), u)
        ELSE Ret(ReplyKb(s1, "choose_person", PersonButtons(s1) \cup {HOME_BUTTON}),
                 "VIEW_CHOOSE_PERSON")

view_choose_account(s, u) ==
    LET pid == Lookup(s, "persons_list", u.text)
    IN  IF IsNone(pid) THEN Ret(Reply(s, "invalid_choice"), "VIEW_CHOOSE_PERSON")
        ELSE
        LET s1 == SetUd(SetUd(s, "selected_person_id", The(pid)),
                        "selected_person_name", u.text)
            s2 == get_accounts_for_person_from_db(s1, u, pid)
        IN  IF ~u.db
            \* accounts is None; get_persons_from_db returns None too and the
            \* list comprehension over it raises TypeError
            THEN Raise(ConnFailed(Reply(s2, "no_accounts")))
            ELSE IF AccountsOf(s, The(pid)) = {}
            THEN LET s3 == get_persons_from_db(Reply(s2, "no_accounts"), u)
                 IN  Ret(ReplyKb(s3, "choose_other_person",
                                 PersonButtons(s3) \cup {HOME_BUTTON}),
                         "VIEW_CHOOSE_PERSON")
            ELSE Ret(ReplyKb(s2, "choose_account",
                             AccountButtons(s2) \cup {BACK_BUTTON, HOME_BUTTON}),
                     "VIEW_CHOOSE_ACCOUNT")

\* the lines of the details message: a column is shown when it is truthy
Truthy(o) == ~IsNone(o) /\ The(o) # <<>>
Details(s, row) ==
    [person |-> IF Has(s.ud, "selected_person_name")
                THEN s.ud["selected_person_name"] ELSE NAME_NA,
     bank |-> OrNA(row.bank_name),
     account_number |-> IF Truthy(row.account_number) THEN row.account_number ELSE None,
     card_number |-> IF Truthy(row.card_number) THEN row.card_number ELSE None,
     shaba_number |-> IF Truthy(row.shaba_number) THEN row.shaba_number ELSE None]

\* the details rendered without the check that the row was found: unpacking
\* the None of fetchone raises
view_display_account_details_unchecked(s, u) ==
    LET aid == Lookup(s, "accounts_list", u.text)
    IN  IF IsNone(aid) THEN Ret(Reply(s, "invalid_choice"), "VIEW_CHOOSE_ACCOUNT")
        ELSE IF ~u.db THEN Ret(Reply(ConnFailed(s), "db_error"), "MAIN_MENU")
        ELSE IF The(aid) \notin DOMAIN s.accounts THEN Raise(s)
        ELSE Ret([Reply(s, "account_details") EXCEPT
                      !.shown = Some(Details(s, s.accounts[The(aid)]))],
                 "VIEW_CHOOSE_ACCOUNT")

view_display_account_details(s, u) ==
    LET aid == Lookup(s, "accounts_list", u.text)
    IN  IF IsNone(aid) THEN Ret(Reply(s, "invalid_choice"), "VIEW_CHOOSE_ACCOUNT")
        ELSE IF ~u.db THEN Ret(Reply(ConnFailed(s), "db_error"), "MAIN_MENU")
        ELSE IF The(aid) \notin DOMAIN s.accounts
        THEN view_choose_account(Reply(s, "account_not_found"), u)
        ELSE
        LET row == s.accounts[The(aid)]
            s1 == [Reply(s, "account_details") EXCEPT !.shown = Some(Details(s, row))]
            s2 == IF ~Truthy(row.card_photo_id) THEN s1
                  ELSE IF u.send THEN Reply(s1, "card_photo")
                  ELSE Reply(SendFailed(s1), "photo_unavailable")
        IN  Ret(s2, "VIEW_CHOOSE_ACCOUNT")

(***************************************************************************)
(* Edit menu and Add flow.                                                 *)
(***************************************************************************)
KB_EDIT == {B_ADD, B_CHANGE, B_DELETE, HOME_BUTTON}

\* the menu rendered with user_data left as it is
edit_menu_keeping(s, u) == Ret(ReplyKb(s, "edit_menu", KB_EDIT), "EDIT_MENU")

edit_menu(s, u) == Ret(ClearUd(ReplyKb(s, "edit_menu", KB_EDIT)), "EDIT_MENU")

add_choose_person_type(s, u) ==
    Ret(ReplyKb(s, "choose_person_type",
                {B_NEW_PERSON, B_EXISTING_PERSON, BACK_BUTTON, HOME_BUTTON}),
        "ADD_CHOOSE_PERSON_TYPE")

add_prompt_new_person_name(s, u) ==
    Ret(ReplyKb(s, "prompt_person_name", {BACK_BUTTON, HOME_BUTTON}), "ADD_NEW_PERSON_NAME")

KB_FIELD == {SKIP_BUTTON, BACK_BUTTON, HOME_BUTTON}

\* persons.name without its UNIQUE constraint
NameTaken_never(s, name) == FALSE

NameTaken(s, name) == \E p \in DOMAIN s.persons : s.persons[p] = name

add_save_new_person_and_prompt_bank(s, u) ==
    LET person_name == Strip(u.text)
    IN  IF person_name = <<>> THEN Ret(Reply(s, "name_empty"), "ADD_NEW_PERSON_NAME")
        ELSE IF ~u.db THEN edit_menu(ConnFailed(s), u)
        ELSE
        \* nextval is taken before the UNIQUE constraint is checked
        LET id == s.pseq + 1
            s0 == [s EXCEPT !.pseq = id]
        IN  IF NameTaken(s, person_name)
            THEN Ret(Reply(s0, "person_exists"), "ADD_NEW_PERSON_NAME")
            ELSE
            LET s1 == [s0 EXCEPT !.persons = DictSet(@, id, person_name)]
                s2 == Reply(SetUd(s1, "new_account_person_id", id), "person_added")
                s3 == SetUd(s2, "new_account", EmptyDict)
            IN  Ret(ReplyKb(s3, "prompt_bank", KB_FIELD), "ADD_ACCOUNT_BANK")

add_choose_existing_person(s, u) ==
    LET s1 == get_persons_from_db(s, u)
    IN  IF ~u.db \/ DOMAIN s.persons = {}
        THEN add_choose_person_type(Reply(s1, "no_persons"), u)
        ELSE Ret(ReplyKb(s1, "choose_person",
                         PersonButtons(s1) \cup {BACK_BUTTON, HOME_BUTTON}),
                 "ADD_CHOOSE_EXISTING_PERSON")

add_set_existing_person_and_prompt_bank(s, u) ==
    LET pid == Lookup(s, "persons_list", u.text)
    IN  IF IsNone(pid) THEN Ret(s, "ADD_CHOOSE_EXISTING_PERSON")
        ELSE LET s1 == SetUd(SetUd(s, "new_account_person_id", The(pid)),
                             "new_account", EmptyDict)
             IN  Ret(ReplyKb(s1, "prompt_bank", KB_FIELD), "ADD_ACCOUNT_BANK")

\* the field step storing None whatever was sent
add_account_get_none(s, u, column, prompt, next) ==
    IF ~Has(s.ud, "new_account") THEN Raise(s)
    ELSE Ret(Reply(SetUd(s, "new_account", DictSet(s.ud["new_account"], column, None)),
                   prompt), next)

\* context.user_data['new_account'][column] = None if text == SKIP_BUTTON else text,
\* then the next prompt with the keyboard left as it is
add_account_get(s, u, column, prompt, next) ==
    IF ~Has(s.ud, "new_account") THEN Raise(s)
    ELSE LET v == IF u.text = SKIP_BUTTON THEN None ELSE Some(u.text)
             s1 == SetUd(s, "new_account", DictSet(s.ud["new_account"], column, v))
         IN  Ret(Reply(s1, prompt), next)

add_account_get_bank(s, u) ==
    add_account_get(s, u, "bank_name", "prompt_account_number", "ADD_ACCOUNT_NUMBER")
add_account_get_number(s, u) ==
    add_account_get(s, u, "account_number", "prompt_card_number", "ADD_ACCOUNT_CARD")
add_account_get_card(s, u) ==
    add_account_get(s, u, "card_number", "prompt_shaba", "ADD_ACCOUNT_SHABA")
add_account_get_shaba(s, u) ==
    add_account_get(s, u, "shaba_number", "prompt_photo", "ADD_ACCOUNT_PHOTO")

\* new_account.get(column)
GetOpt(d, k) == IF Has(d, k) THEN d[k] ELSE None

\* an INSERT that ignores the foreign key
ReferencesPerson_any(s, pid) == TRUE

\* accounts.person_id REFERENCES persons(id): the row the new account points at exists
ReferencesPerson(s, pid) == pid \in DOMAIN s.persons

\* the photo step that asks for the photo again whatever it is sent
add_account_get_photo_and_save_asking(s, u) ==
    Ret(Reply(s, "need_photo"), "ADD_ACCOUNT_PHOTO")

add_account_get_photo_and_save(s, u) ==
    LET stored == Has(s.ud, "new_account")
        na0 == IF stored THEN s.ud["new_account"] ELSE EmptyDict
        accepted == ~IsText(u) \/ u.text = SKIP_BUTTON
        na == DictSet(na0, "card_photo_id", IF ~IsText(u) THEN u.photo ELSE None)
        \* new_account is the dict held in user_data when the key is present
        s1 == IF stored THEN SetUd(s, "new_account", na) ELSE s
    IN  IF ~accepted THEN Ret(Reply(s, "need_photo"), "ADD_ACCOUNT_PHOTO")
        ELSE IF ~Has(s.ud, "new_account_person_id") THEN start(s1, u)
        ELSE IF ~u.db THEN edit_menu(ConnFailed(s1), u)
        ELSE
        LET pid == s.ud["new_account_person_id"]
            id == s.aseq + 1
            s2 == [s1 EXCEPT !.aseq = id]
            row == [person_id |-> pid,
                    bank_name |-> GetOpt(na, "bank_name"),
                    account_number |-> GetOpt(na, "account_number"),
                    card_number |-> GetOpt(na, "card_number"),
                    shaba_number |-> GetOpt(na, "shaba_number"),
                    card_photo_id |-> GetOpt(na, "card_photo_id")]
            \* person_id REFERENCES persons(id): a missing person is a psycopg2.Error
            s3 == IF ReferencesPerson(s, pid)
                  THEN Reply([s2 EXCEPT !.accounts = DictSet(@, id, row)], "account_saved")
                  ELSE Reply(s2, "save_error")
        IN  edit_menu(PopUd(PopUd(s3, "new_account"), "new_account_person_id"), u)

(***************************************************************************)
(* Delete flow.                                                            *)
(***************************************************************************)
KB_CONFIRM == {B_YES, B_NO, HOME_BUTTON}

delete_choose_type(s, u) ==
    Ret(ReplyKb(s, "choose_delete_type",
                {B_DELETE_PERSON, B_DELETE_ACCOUNT, BACK_BUTTON, HOME_BUTTON}),
        "DELETE_CHOOSE_TYPE")

delete_choose_person(s, u) ==
    LET s1 == get_persons_from_db(s, u)
    IN  IF ~u.db \/ DOMAIN s.persons = {}
        THEN edit_menu(Reply(s1, "no_persons"), u)
        ELSE Ret(ReplyKb(s1, "choose_person",
                         PersonButtons(s1) \cup {BACK_BUTTON, HOME_BUTTON}),
                 "DELETE_CHOOSE_PERSON")

\* the selection of a person deleting it before any confirmation
delete_confirm_person_direct(s, u) ==
    LET pid == Lookup(s, "persons_list", u.text)
    IN  IF IsNone(pid) THEN Ret(s, "DELETE_CHOOSE_PERSON")
        ELSE Ret(ReplyKb([s EXCEPT !.persons = DictPop(@, The(pid))],
                         "confirm_delete_person", KB_CONFIRM),
                 "DELETE_CONFIRM_PERSON")

\* the confirmation that takes the person inserted last for the target
\* instead of the one selected
delete_confirm_person_latest(s, u) ==
    LET pid == Lookup(s, "persons_list", u.text)
    IN  IF IsNone(pid) THEN Ret(s, "DELETE_CHOOSE_PERSON")
        ELSE Ret(ReplyKb(SetUd(s, "person_to_delete", [id |-> s.pseq, name |-> u.text]),
                         "confirm_delete_person", KB_CONFIRM),
                 "DELETE_CONFIRM_PERSON")

delete_confirm_person(s, u) ==
    LET pid == Lookup(s, "persons_list", u.text)
    IN  IF IsNone(pid) THEN Ret(s, "DELETE_CHOOSE_PERSON")
        ELSE Ret(ReplyKb(SetUd(s, "person_to_delete", [id |-> The(pid), name |-> u.text]),
                         "confirm_delete_person", KB_CONFIRM),
                 "DELETE_CONFIRM_PERSON")

\* the DELETE without ON DELETE CASCADE taking effect
DeletePerson_alone(s, pid) == [s EXCEPT !.persons = DictPop(@, pid)]

\* DELETE FROM persons WHERE id = pid, with accounts.person_id ON DELETE CASCADE
DeletePerson(s, pid) ==
    [s EXCEPT !.persons = DictPop(@, pid),
              !.accounts = [a \in (DOMAIN @) \ AccountsOf(s, pid) |-> @[a]]]

delete_execute_person_deletion(s, u) ==
    IF ~Has(s.ud, "person_to_delete") THEN edit_menu(s, u)
    ELSE IF ~u.db THEN edit_menu(ConnFailed(s), u)
    ELSE LET s1 == Reply(DeletePerson(s, s.ud["person_to_delete"].id), "person_deleted")
         IN  edit_menu(PopUd(s1, "person_to_delete"), u)

\* the No button wired to the deletion
delete_cancel_deleting(s, u) == delete_execute_person_deletion(s, u)

delete_cancel(s, u) ==
    edit_menu(PopUd(PopUd(Reply(s, "delete_cancelled"), "person_to_delete"),
                    "account_to_delete"), u)

delete_choose_account_for_person(s, u) ==
    LET s1 == get_persons_from_db(s, u)
    IN  IF ~u.db \/ DOMAIN s.persons = {}
        THEN edit_menu(Reply(s1, "no_persons"), u)
        ELSE Ret(ReplyKb(s1, "choose_person",
                         PersonButtons(s1) \cup {BACK_BUTTON, HOME_BUTTON}),
                 "DELETE_CHOOSE_ACCOUNT_FOR_PERSON")

delete_choose_account(s, u) ==
    LET pid == Lookup(s, "persons_list", u.text)
    IN  IF IsNone(pid) THEN Ret(s, "DELETE_CHOOSE_ACCOUNT_FOR_PERSON")
        ELSE
        LET s1 == get_accounts_for_person_from_db(s, u, pid)
        IN  IF ~u.db \/ AccountsOf(s, The(pid)) = {}
            THEN delete_choose_account_for_person(Reply(s1, "no_accounts"), u)
            ELSE Ret(ReplyKb(s1, "choose_account",
                             AccountButtons(s1) \cup {BACK_BUTTON, HOME_BUTTON}),
                     "DELETE_CHOOSE_ACCOUNT")

delete_confirm_account(s, u) ==
    LET aid == Lookup(s, "accounts_list", u.text)
    IN  IF IsNone(aid) THEN Ret(s, "DELETE_CHOOSE_ACCOUNT")
        ELSE Ret(ReplyKb(SetUd(s, "account_to_delete", [id |-> The(aid), key |-> u.text]),
                         "confirm_delete_account", KB_CONFIRM),
                 "DELETE_CONFIRM_ACCOUNT")

delete_execute_account_deletion(s, u) ==
    IF ~Has(s.ud, "account_to_delete") THEN edit_menu(s, u)
    ELSE IF ~u.db THEN edit_menu(ConnFailed(s), u)
    ELSE LET s1 == Reply([s EXCEPT !.accounts = DictPop(@, s.ud["account_to_delete"].id)],
                         "account_deleted")
         IN  edit_menu(PopUd(s1, "account_to_delete"), u)

(***************************************************************************)
(* Change flow.                                                            *)
(***************************************************************************)
change_choose_person(s, u) ==
    LET s1 == get_persons_from_db(s, u)
    IN  IF ~u.db \/ DOMAIN s.persons = {}
        THEN edit_menu(Reply(s1, "no_persons"), u)
        ELSE Ret(ReplyKb(s1, "choose_person",
                         PersonButtons(s1) \cup {BACK_BUTTON, HOME_BUTTON}),
                 "CHANGE_CHOOSE_PERSON")

change_choose_target(s, u) ==
    LET pid == Lookup(s, "persons_list", u.text)
    IN  IF IsNone(pid) THEN Ret(Reply(s, "invalid_choice"), "CHANGE_CHOOSE_PERSON")
        ELSE Ret(ReplyKb(SetUd(s, "change_person", [id |-> The(pid), name |-> u.text]),
                         "choose_target",
                         {B_RENAME_PERSON, B_EDIT_ACCOUNT, BACK_BUTTON, HOME_BUTTON}),
                 "CHANGE_CHOOSE_TARGET")

\* the prompt returning the declared state that has no entry in the states map
change_prompt_person_name_unmapped(s, u) ==
    Ret(ReplyKb(s, "prompt_new_name", {BACK_BUTTON, HOME_BUTTON}), "CHANGE_SAVE_PERSON_NAME")

change_prompt_person_name(s, u) ==
    Ret(ReplyKb(s, "prompt_new_name", {BACK_BUTTON, HOME_BUTTON}), "CHANGE_PROMPT_PERSON_NAME")

change_save_person_name(s, u) ==
    LET new_name == Strip(u.text)
    IN  IF new_name = <<>> \/ ~Has(s.ud, "change_person")
        THEN Ret(Reply(s, "name_empty"), "CHANGE_PROMPT_PERSON_NAME")
        ELSE IF ~u.db THEN edit_menu(ConnFailed(s), u)
        ELSE
        LET pid == s.ud["change_person"].id
            \* UPDATE persons SET name = new_name WHERE id = pid, name UNIQUE
            clash == /\ pid \in DOMAIN s.persons
                     /\ \E p \in DOMAIN s.persons : p # pid /\ s.persons[p] = new_name
            s1 == IF clash THEN Reply(s, "person_exists")
                  ELSE Reply([s EXCEPT !.persons =
                                 [p \in DOMAIN @ |-> IF p = pid THEN new_name ELSE @[p]]],
                             "renamed")
        IN  edit_menu(s1, u)

change_choose_account(s, u) ==
    LET pid == IF Has(s.ud, "change_person") THEN Some(s.ud["change_person"].id) ELSE None
        s1 == get_accounts_for_person_from_db(s, u, pid)
    IN  IF ~u.db \/ IsNone(pid) \/ AccountsOf(s, The(pid)) = {}
        THEN change_choose_target(Reply(s1, "no_accounts"), u)
        ELSE Ret(ReplyKb(s1, "choose_account",
                         AccountButtons(s1) \cup {BACK_BUTTON, HOME_BUTTON}),
                 "CHANGE_CHOOSE_ACCOUNT")

change_choose_field(s, u) ==
    LET aid == Lookup(s, "accounts_list", u.text)
    IN  IF IsNone(aid) THEN Ret(Reply(s, "invalid_choice"), "CHANGE_CHOOSE_ACCOUNT")
        ELSE Ret(ReplyKb(SetUd(s, "change_account_id", The(aid)), "choose_field",
                         DOMAIN FIELD_TO_COLUMN_MAP \cup {BACK_BUTTON, HOME_BUTTON}),
                 "CHANGE_CHOOSE_FIELD")

change_prompt_field_value(s, u) ==
    IF u.text \notin DOMAIN FIELD_TO_COLUMN_MAP
    THEN Ret(Reply(s, "invalid_choice"), "CHANGE_CHOOSE_FIELD")
    ELSE Ret(ReplyKb(SetUd(s, "change_field", u.text), "prompt_field_value", KB_FIELD),
             "CHANGE_PROMPT_FIELD_VALUE")

\* the UPDATE without its WHERE id clause
UpdateColumn_all(s, aid, column, value) ==
    [s EXCEPT !.accounts = [a \in DOMAIN @ |-> [@[a] EXCEPT ![column] = value]]]

\* UPDATE accounts SET <column> = value WHERE id = aid
UpdateColumn(s, aid, column, value) ==
    [s EXCEPT !.accounts =
        [a \in DOMAIN @ |-> IF a = aid THEN [@[a] EXCEPT ![column] = value] ELSE @[a]]]

change_save_field_value(s, u) ==
    IF \/ ~Has(s.ud, "change_field")
       \/ ~Has(s.ud, "change_account_id")
       \/ s.ud["change_field"] \notin DOMAIN FIELD_TO_COLUMN_MAP
    THEN edit_menu(Reply(s, "internal_error"), u)
    ELSE
    LET column_name == FIELD_TO_COLUMN_MAP[s.ud["change_field"]]
        account_id == s.ud["change_account_id"]
        skip == IsText(u) /\ u.text = SKIP_BUTTON
        new_value == IF skip THEN None
                     ELSE IF column_name = "card_photo_id" THEN u.photo
                     ELSE Some(u.text)
    IN  IF ~skip /\ column_name = "card_photo_id" /\ IsText(u)
        THEN Ret(Reply(s, "need_photo"), "CHANGE_PROMPT_FIELD_VALUE")
        ELSE IF ~skip /\ column_name # "card_photo_id" /\ ~IsText(u)
        THEN Ret(Reply(s, "need_text"), "CHANGE_PROMPT_FIELD_VALUE")
        ELSE IF ~u.db THEN edit_menu(ConnFailed(s), u)
        ELSE
        LET s1 == Reply(UpdateColumn(s, account_id, column_name, new_value), "field_updated")
        IN  edit_menu(PopUd(PopUd(PopUd(s1, "change_person"), "change_account_id"),
                            "change_field"), u)

(***************************************************************************)
(* Fallback and cancel.                                                    *)
(***************************************************************************)
cancel(s, u) == start(ClearUd(ReplyKb(s, "cancelled", {})), u)

(***************************************************************************)
(* ConversationHandler of main(): the handlers of each state and the       *)
(* fallbacks, in the order written.  An entry is a filter and the name of  *)
(* the callback.                                                           *)
(***************************************************************************)
Entry(kind, label, sts, h) == [kind |-> kind, label |-> label, sts |-> sts, h |-> h]
OnRegex(label, h) == Entry("regex", label, {}, h)
OnText(h) == Entry("text_not_command", <<>>, {}, h)
OnPhotoOrText(h) == Entry("photo_or_text", <<>>, {}, h)
OnCommand(cmd, h) == Entry("command", cmd, {}, h)
OnBack(sts, h) == Entry("regex_in_state", BACK_BUTTON, sts, h)
OnAll(h) == Entry("all", <<>>, {}, h)

Matches(e, st, u) ==
    CASE e.kind = "regex" -> IsText(u) /\ u.text = e.label
      [] e.kind = "text_not_command" -> IsText(u) /\ ~IsCommand(u)
      [] e.kind = "photo_or_text" -> TRUE
      [] e.kind = "command" -> IsCommand(u) /\ u.text[1] = e.label[1]
      [] e.kind = "regex_in_state" -> IsText(u) /\ u.text = e.label /\ st \in e.sts
      [] e.kind = "all" -> TRUE

EntryPoints == << OnCommand(CMD_START, "start") >>

StateHandlers(st) ==
    CASE st = "MAIN_MENU" ->
            << OnRegex(B_VIEW, "view_choose_person"),
               OnRegex(B_EDIT, "edit_menu"),
               OnRegex(B_ADMIN, "admin_menu") >>
      [] st = "ADMIN_MENU" ->
            << OnRegex(B_VIEW_USERS, "admin_view_users"),
               OnRegex(B_ADD_USER, "admin_prompt_add_user"),
               OnRegex(B_REMOVE_USER, "admin_prompt_remove_user") >>
      [] st = "ADMIN_ADD_USER" -> << OnText("admin_add_user") >>
      [] st = "ADMIN_REMOVE_USER" -> << OnText("admin_remove_user") >>
      [] st = "VIEW_CHOOSE_PERSON" -> << OnText("view_choose_account") >>
      [] st = "VIEW_CHOOSE_ACCOUNT" -> << OnText("view_display_account_details") >>
      [] st = "EDIT_MENU" ->
            << OnRegex(B_ADD, "add_choose_person_type"),
               OnRegex(B_CHANGE, "change_choose_person"),
               OnRegex(B_DELETE, "delete_choose_type") >>
      [] st = "ADD_CHOOSE_PERSON_TYPE" ->
            << OnRegex(B_NEW_PERSON, "add_prompt_new_person_name"),
               OnRegex(B_EXISTING_PERSON, "add_choose_existing_person") >>
      [] st = "ADD_NEW_PERSON_NAME" -> << OnText("add_save_new_person_and_prompt_bank") >>
      [] st = "ADD_CHOOSE_EXISTING_PERSON" ->
            << OnText("add_set_existing_person_and_prompt_bank") >>
      [] st = "ADD_ACCOUNT_BANK" -> << OnText("add_account_get_bank") >>
      [] st = "ADD_ACCOUNT_NUMBER" -> << OnText("add_account_get_number") >>
      [] st = "ADD_ACCOUNT_CARD" -> << OnText("add_account_get_card") >>
      [] st = "ADD_ACCOUNT_SHABA" -> << OnText("add_account_get_shaba") >>
      [] st = "ADD_ACCOUNT_PHOTO" -> << OnPhotoOrText("add_account_get_photo_and_save") >>
      [] st = "DELETE_CHOOSE_TYPE" ->
            << OnRegex(B_DELETE_PERSON, "delete_choose_person"),
               OnRegex(B_DELETE_ACCOUNT, "delete_choose_account_for_person") >>
      [] st = "DELETE_CHOOSE_PERSON" -> << OnText("delete_confirm_person") >>
      [] st = "DELETE_CONFIRM_PERSON" ->
            << OnRegex(B_YES, "delete_execute_person_deletion"),
               OnRegex(B_NO, "delete_cancel") >>
      [] st = "DELETE_CHOOSE_ACCOUNT_FOR_PERSON" -> << OnText("delete_choose_account") >>
      [] st = "DELETE_CHOOSE_ACCOUNT" -> << OnText("delete_confirm_account") >>
      [] st = "DELETE_CONFIRM_ACCOUNT" ->
            << OnRegex(B_YES, "delete_execute_account_deletion"),
               OnRegex(B_NO, "delete_cancel") >>
      [] st = "CHANGE_CHOOSE_PERSON" -> << OnText("change_choose_target") >>
      [] st = "CHANGE_CHOOSE_TARGET" ->
            << OnRegex(B_RENAME_PERSON, "change_prompt_person_name"),
               OnRegex(B_EDIT_ACCOUNT, "change_choose_account") >>
      [] st = "CHANGE_PROMPT_PERSON_NAME" -> << OnText("change_save_person_name") >>
      [] st = "CHANGE_CHOOSE_ACCOUNT" -> << OnText("change_choose_field") >>
      [] st = "CHANGE_CHOOSE_FIELD" -> << OnText("change_prompt_field_value") >>
      [] st = "CHANGE_PROMPT_FIELD_VALUE" -> << OnPhotoOrText("change_save_field_value") >>
      [] OTHER -> << >>

Fallbacks ==
    << OnCommand(CMD_START, "start"),
       OnRegex(HOME_BUTTON, "main_menu"),
       OnBack({"ADMIN_ADD_USER", "ADMIN_REMOVE_USER"}, "admin_menu"),
       OnBack({"VIEW_CHOOSE_ACCOUNT"}, "view_choose_person"),
       OnBack({"ADD_CHOOSE_PERSON_TYPE", "DELETE_CHOOSE_TYPE", "CHANGE_CHOOSE_PERSON"},
              "edit_menu"),
       OnBack({"ADD_NEW_PERSON_NAME", "ADD_CHOOSE_EXISTING_PERSON"}, "add_choose_person_type"),
       OnBack({"DELETE_CHOOSE_PERSON", "DELETE_CHOOSE_ACCOUNT_FOR_PERSON"},
              "delete_choose_type"),
       OnBack({"CHANGE_CHOOSE_TARGET"}, "change_choose_person"),
       OnBack({"CHANGE_PROMPT_PERSON_NAME"}, "change_choose_target"),
       OnBack({"CHANGE_CHOOSE_ACCOUNT"}, "change_choose_target"),
       OnBack({"CHANGE_CHOOSE_FIELD"}, "change_choose_account"),
       OnBack({"CHANGE_PROMPT_FIELD_VALUE"}, "change_choose_field"),
       OnBack({"ADD_ACCOUNT_BANK", "ADD_ACCOUNT_NUMBER", "ADD_ACCOUNT_CARD",
               "ADD_ACCOUNT_SHABA", "ADD_ACCOUNT_PHOTO"}, "add_choose_person_type"),
       OnCommand(CMD_CANCEL, "cancel"),
       OnAll("start") >>

\* the callback of the first entry of a list that accepts the update
FirstMatch(list, st, u) ==
    LET hits == {i \in 1..Len(list) : Matches(list[i], st, u)}
    IN  IF hits = {} THEN "none"
        ELSE list[CHOOSE i \in hits : \A j \in hits : i <= j].h

\* ConversationHandler: without a conversation only the entry points are tried;
\* with one, the handlers of its state and then the fallbacks
Dispatch(st, u) ==
    IF st = END THEN FirstMatch(EntryPoints, st, u)
    ELSE FirstMatch(StateHandlers(st) \o Fallbacks, st, u)

(***************************************************************************)
(* The users of the bot.  In a conversation state a user answers the       *)
(* prompt: a caption of the keyboard displayed, a typed text of the kind   *)
(* the prompt asks for, a photo where one is asked for.  Everything else   *)
(* is a detour: a command in the middle of a conversation, a text no       *)
(* keyboard offers, a photo nobody asked for, and the Home / Back captions *)
(* in the states that take free text.  Detours and failures of the         *)
(* environment (a refused connection, a failed send) are counted, and a    *)
(* run has at most MaxDetour of the first and MaxFault of the second.      *)
(***************************************************************************)
JUNK == <<"zzz">>
NameTexts == {<<"A">>}
ValueTexts == {}
IdTexts == {Str(c) : c \in ChatIds}
\* typed instead of a button of the remove-user keyboard
CraftedRemoveTexts == {UserButton(<<"x">>, c) : c \in ChatIds}

NameStates == {"ADD_NEW_PERSON_NAME", "CHANGE_PROMPT_PERSON_NAME"}
ValueStates == {"ADD_ACCOUNT_BANK", "ADD_ACCOUNT_NUMBER", "ADD_ACCOUNT_CARD",
                "ADD_ACCOUNT_SHABA", "CHANGE_PROMPT_FIELD_VALUE"}
PhotoStates == {"ADD_ACCOUNT_PHOTO", "CHANGE_PROMPT_FIELD_VALUE"}
FreeTextStates ==
    NameStates \cup ValueStates \cup PhotoStates \cup {"ADMIN_ADD_USER", "ADMIN_REMOVE_USER"}

Typed(st) ==
    CASE st \in NameStates -> NameTexts
      [] st \in ValueStates -> ValueTexts
      [] st = "ADMIN_ADD_USER" -> IdTexts
      [] OTHER -> {}

\* the navigation captions, which a free-text state may take for the text
NavInFreeText(c) ==
    IF conv[c] \in FreeTextStates THEN {HOME_BUTTON, BACK_BUTTON} ELSE {}

\* the inputs the bot has asked for: /start when no conversation is open, a
\* button of the keyboard on screen, a typed name, value or id
ForwardTexts(c) ==
    IF conv[c] = END THEN {CMD_START}
    ELSE (kbd[c] \ NavInFreeText(c)) \cup Typed(conv[c])

\* the inputs the bot has not asked for: a command or a stray text in the
\* middle of a flow, a navigation button while a free text is awaited, a typed
\* text where a user's button is awaited
DetourTexts(c) ==
    IF conv[c] = END \/ detours >= MaxDetour THEN {}
    ELSE {CMD_START, CMD_CANCEL, JUNK} \cup NavInFreeText(c)
         \cup IF conv[c] = "ADMIN_REMOVE_USER" THEN CraftedRemoveTexts ELSE {}

\* what the environment does while an update is handled: every connection
\* succeeds or every connection fails; sends succeed or fail (a send is only
\* attempted after a connection succeeded)
AllGood == [db |-> TRUE, send |-> TRUE]
Envs ==
    IF faults < MaxFault
    THEN {AllGood, [db |-> FALSE, send |-> TRUE], [db |-> TRUE, send |-> FALSE]}
    ELSE {AllGood}

TextUpdate(c, t, e, d) ==
    [chat |-> c, text |-> t, photo |-> None, db |-> e.db, send |-> e.send, detour |-> d]
PhotoUpdate(c, e, d) ==
    [chat |-> c, text |-> <<>>, photo |-> Some(PHOTO_ID), db |-> e.db, send |-> e.send,
     detour |-> d]

\* every update of one session: asked for or not, with the database and the
\* Telegram API up or down
Updates(c) ==
    {TextUpdate(c, t, e, FALSE) : t \in ForwardTexts(c), e \in Envs}
    \cup {TextUpdate(c, t, e, TRUE) : t \in DetourTexts(c), e \in Envs}
    \cup {PhotoUpdate(c, e, conv[c] \notin PhotoStates) :
                e \in IF conv[c] \in PhotoStates \/ detours < MaxDetour THEN Envs ELSE {}}

\* the captions a chat does not press when two chats are open: the admin's
\* chat keeps to the admin menu
Avoids(c) == IF c = ADMIN_TELEGRAM_ID THEN {B_VIEW, B_EDIT} ELSE {}

\* the updates of two concurrent sessions: the inputs asked for (and /cancel at
\* the main menu), everything up
ExpectedUpdates(c) ==
    {TextUpdate(c, t, AllGood, FALSE) :
        t \in (ForwardTexts(c) \ Avoids(c))
               \cup IF conv[c] = "MAIN_MENU" THEN {CMD_CANCEL} ELSE {}}
    \cup {PhotoUpdate(c, AllGood, FALSE) : x \in IF conv[c] \in PhotoStates THEN {1} ELSE {}}

(***************************************************************************)
(* One update handled to completion.                                       *)
(***************************************************************************)
\* what the callback sees when the update of chat c arrives
Prog(c) ==
    [users |-> users, persons |-> persons, accounts |-> accounts,
     pseq |-> pseq, aseq |-> aseq, ud |-> udata[c], kbd |-> kbd[c],
     out |-> <<>>, shown |-> None, dbfail |-> FALSE, sendfail |-> FALSE, ret |-> "NONE"]

\* the callback's effects; a raised exception leaves the conversation state as it was.
\* The environment fails a connection or a send only when one is attempted.
Commit(c, u, h, r) ==
    /\ u.db \/ r.dbfail
    /\ u.send \/ r.sendfail
    /\ detours' = detours + (IF u.detour THEN 1 ELSE 0)
    /\ faults' = faults + (IF r.dbfail \/ r.sendfail THEN 1 ELSE 0)
    /\ detours' <= MaxDetour
    /\ faults' <= MaxFault
    /\ users' = r.users
    /\ persons' = r.persons
    /\ accounts' = r.accounts
    /\ pseq' = r.pseq
    /\ aseq' = r.aseq
    /\ udata' = [udata EXCEPT ![c] = r.ud]
    /\ kbd' = [kbd EXCEPT ![c] = r.kbd]
    /\ conv' = [conv EXCEPT ![c] = IF r.ret = RAISE THEN @ ELSE r.ret]
    /\ last' = [chat |-> c, text |-> u.text, photo |-> u.photo, handler |-> h,
                from |-> conv[c], out |-> r.out, shown |-> r.shown,
                dbfail |-> r.dbfail, sendfail |-> r.sendfail, raised |-> r.ret = RAISE]
    /\ UNCHANGED bot_vars

BotIdle == [user |-> 0, handler |-> "none", known |-> FALSE, out |-> <<>>, raised |-> FALSE]

\* setup_database() on an empty database; no conversation has started
MainInit ==
    /\ users = (ADMIN_TELEGRAM_ID :> NAME_ADMIN)
    /\ persons = EmptyDict
    /\ accounts = EmptyDict
    /\ pseq = 0
    /\ aseq = 0
    /\ conv = [c \in ChatIds |-> END]
    /\ udata = [c \in ChatIds |-> EmptyDict]
    /\ kbd = [c \in ChatIds |-> {}]
    /\ detours = 0
    /\ faults = 0
    /\ last = [chat |-> 0, text |-> <<>>, photo |-> None, handler |-> "none",
               from |-> END, out |-> <<>>, shown |-> None,
               dbfail |-> FALSE, sendfail |-> FALSE, raised |-> FALSE]

Init ==
    /\ MainInit
    /\ bot_users = EmptyDict
    /\ bot_keyboard = FALSE
    /\ bot_last = BotIdle

\* the application handles update u of chat c: the callback the conversation
\* dispatches it to runs to completion
Step(c, u) ==
    \E s \in {Prog(c)} : \E h \in {Dispatch(conv[c], u)} :
    \/ h = "start" /\ \E r \in {start(s, u)} : Commit(c, u, h, r)
    \/ h = "main_menu" /\ \E r \in {main_menu(s, u)} : Commit(c, u, h, r)
    \/ h = "cancel" /\ \E r \in {cancel(s, u)} : Commit(c, u, h, r)
    \/ h = "admin_menu" /\ \E r \in {admin_menu(s, u)} : Commit(c, u, h, r)
    \/ h = "admin_view_users" /\ \E r \in {admin_view_users(s, u)} : Commit(c, u, h, r)
    \/ h = "admin_prompt_add_user" /\ \E r \in {admin_prompt_add_user(s, u)} : Commit(c, u, h, r)
    \/ h = "admin_add_user" /\ \E r \in {admin_add_user(s, u)} : Commit(c, u, h, r)
    \/ h = "admin_prompt_remove_user" /\ \E r \in {admin_prompt_remove_user(s, u)} : Commit(c, u, h, r)
    \/ h = "admin_remove_user" /\ \E r \in {admin_remove_user(s, u)} : Commit(c, u, h, r)
    \/ h = "view_choose_person" /\ \E r \in {view_choose_person(s, u)} : Commit(c, u, h, r)
    \/ h = "view_choose_account" /\ \E r \in {view_choose_account(s, u)} : Commit(c, u, h, r)
    \/ h = "view_display_account_details" /\ \E r \in {view_display_account_details(s, u)} : Commit(c, u, h, r)
    \/ h = "edit_menu" /\ \E r \in {edit_menu(s, u)} : Commit(c, u, h, r)
    \/ h = "add_choose_person_type" /\ \E r \in {add_choose_person_type(s, u)} : Commit(c, u, h, r)
    \/ h = "add_prompt_new_person_name" /\ \E r \in {add_prompt_new_person_name(s, u)} : Commit(c, u, h, r)
    \/ h = "add_save_new_person_and_prompt_bank" /\ \E r \in {add_save_new_person_and_prompt_bank(s, u)} : Commit(c, u, h, r)
    \/ h = "add_choose_existing_person" /\ \E r \in {add_choose_existing_person(s, u)} : Commit(c, u, h, r)
    \/ h = "add_set_existing_person_and_prompt_bank" /\ \E r \in {add_set_existing_person_and_prompt_bank(s, u)} : Commit(c, u, h, r)
    \/ h = "add_account_get_bank" /\ \E r \in {add_account_get_bank(s, u)} : Commit(c, u, h, r)
    \/ h = "add_account_get_number" /\ \E r \in {add_account_get_number(s, u)} : Commit(c, u, h, r)
    \/ h = "add_account_get_card" /\ \E r \in {add_account_get_card(s, u)} : Commit(c, u, h, r)
    \/ h = "add_account_get_shaba" /\ \E r \in {add_account_get_shaba(s, u)} : Commit(c, u, h, r)
    \/ h = "add_account_get_photo_and_save" /\ \E r \in {add_account_get_photo_and_save(s, u)} : Commit(c, u, h, r)
    \/ h = "delete_choose_type" /\ \E r \in {delete_choose_type(s, u)} : Commit(c, u, h, r)
    \/ h = "delete_choose_person" /\ \E r \in {delete_choose_person(s, u)} : Commit(c, u, h, r)
    \/ h = "delete_confirm_person" /\ \E r \in {delete_confirm_person(s, u)} : Commit(c, u, h, r)
    \/ h = "delete_execute_person_deletion" /\ \E r \in {delete_execute_person_deletion(s, u)} : Commit(c, u, h, r)
    \/ h = "delete_cancel" /\ \E r \in {delete_cancel(s, u)} : Commit(c, u, h, r)
    \/ h = "delete_choose_account_for_person" /\ \E r \in {delete_choose_account_for_person(s, u)} : Commit(c, u, h, r)
    \/ h = "delete_choose_account" /\ \E r \in {delete_choose_account(s, u)} : Commit(c, u, h, r)
    \/ h = "delete_confirm_account" /\ \E r \in {delete_confirm_account(s, u)} : Commit(c, u, h, r)
    \/ h = "delete_execute_account_deletion" /\ \E r \in {delete_execute_account_deletion(s, u)} : Commit(c, u, h, r)
    \/ h = "change_choose_person" /\ \E r \in {change_choose_person(s, u)} : Commit(c, u, h, r)
    \/ h = "change_choose_target" /\ \E r \in {change_choose_target(s, u)} : Commit(c, u, h, r)
    \/ h = "change_prompt_person_name" /\ \E r \in {change_prompt_person_name(s, u)} : Commit(c, u, h, r)
    \/ h = "change_save_person_name" /\ \E r \in {change_save_person_name(s, u)} : Commit(c, u, h, r)
    \/ h = "change_choose_account" /\ \E r \in {change_choose_account(s, u)} : Commit(c, u, h, r)
    \/ h = "change_choose_field" /\ \E r \in {change_choose_field(s, u)} : Commit(c, u, h, r)
    \/ h = "change_prompt_field_value" /\ \E r \in {change_prompt_field_value(s, u)} : Commit(c, u, h, r)
    \/ h = "change_save_field_value" /\ \E r \in {change_save_field_value(s, u)} : Commit(c, u, h, r)

\* the step leaves at most p persons and a accounts ever inserted
Within(p, a) == pseq' <= p /\ aseq' <= a

\* two chats, the admin's and another, send the inputs the bot asks for
Next ==
    \E c \in ChatIds : \E u \in ExpectedUpdates(c) :
        Step(c, u) /\ Within(MaxPersonSeq, MaxAccountSeq)

Spec == Init /\ [][Next]_vars

\* the captions of the admin flow and the navigation captions, typed by a chat
\* other than the admin's in any state that does not store the text it is sent
IntruderUpdates(c) ==
    {TextUpdate(c, t, AllGood, TRUE) :
        t \in IF \/ c = ADMIN_TELEGRAM_ID \/ detours >= MaxDetour
                 \/ conv[c] \in FreeTextStates \cup {END} THEN {}
              ELSE {B_ADMIN, B_VIEW_USERS, B_ADD_USER, B_REMOVE_USER, BACK_BUTTON,
                    CMD_CANCEL} \cup IdTexts}

\* two chats, the other one also trying the admin flow out of turn
NextIntruder ==
    \E c \in ChatIds : \E u \in ExpectedUpdates(c) \cup IntruderUpdates(c) :
        Step(c, u) /\ Within(MaxPersonSeq, MaxAccountSeq)

SpecIntruder == Init /\ [][NextIntruder]_vars

\* one chat, the admin's, sends any input while the database and the Telegram
\* API may fail
NextSession ==
    \E u \in Updates(ADMIN_TELEGRAM_ID) :
        Step(ADMIN_TELEGRAM_ID, u) /\ Within(MaxPersonSeq, MaxAccountSeq)

SpecSession == Init /\ [][NextSession]_vars

\* the captions a chat does not press when both chats work on the data: the
\* admin's chat adds and deletes, the other chat views, changes and deletes
SharedAvoids(c) == IF c = ADMIN_TELEGRAM_ID THEN {B_VIEW, B_CHANGE} ELSE {B_ADMIN, B_ADD}

SharedUpdates(c) ==
    {TextUpdate(c, t, AllGood, FALSE) :
        t \in (ForwardTexts(c) \ SharedAvoids(c))
               \cup IF conv[c] = "MAIN_MENU" THEN {CMD_CANCEL} ELSE {}}
    \cup {PhotoUpdate(c, AllGood, FALSE) : x \in IF conv[c] \in PhotoStates THEN {1} ELSE {}}

\* two chats share the database: each sends the inputs the bot asks for while
\* the other is in the middle of a flow
NextShared ==
    \E c \in ChatIds : \E u \in SharedUpdates(c) :
        Step(c, u) /\ Within(MaxPersonSeq, MaxAccountSeq)

SpecShared == Init /\ [][NextShared]_vars

\* the same two chats while a connection to the database or a send may fail
OutageUpdates(c) ==
    {TextUpdate(c, t, e, FALSE) :
        t \in (ForwardTexts(c) \ SharedAvoids(c))
               \cup (IF conv[c] = "MAIN_MENU" THEN {CMD_CANCEL} ELSE {}),
        e \in Envs}
    \cup {PhotoUpdate(c, e, FALSE) : e \in IF conv[c] \in PhotoStates THEN Envs ELSE {}}

NextOutage ==
    \E c \in ChatIds : \E u \in OutageUpdates(c) :
        Step(c, u) /\ Within(MaxPersonSeq, MaxAccountSeq)

SpecOutage == Init /\ [][NextOutage]_vars

\* the texts typed for a field: a value, and for the IBAN (shaba_number) its
\* digits without and with the IR prefix
VALUE == <<"v">>
BBAN == <<"1", "2">>
IBAN == <<"IR">> \o BBAN
DataNameTexts == {<<"A">>, <<"B">>}

\* the step of chat c asks for the IBAN
AsksShaba(c) ==
    \/ conv[c] = "ADD_ACCOUNT_SHABA"
    \/ /\ conv[c] = "CHANGE_PROMPT_FIELD_VALUE" /\ Has(udata[c], "change_field")
       /\ udata[c]["change_field"] = F_SHABA

\* a typed name, a typed value at a field step (at the photo step too, where a
\* photo is asked for), a typed id
DataTyped(c) ==
    CASE conv[c] \in NameStates -> DataNameTexts
      [] AsksShaba(c) -> {BBAN, IBAN}
      [] conv[c] \in ValueStates \cup {"ADD_ACCOUNT_PHOTO"} -> {VALUE}
      [] conv[c] = "ADMIN_ADD_USER" -> IdTexts
      [] OTHER -> {}

\* one chat fills in the fields: a button of the keyboard on screen, a typed
\* text, a photo where a value is awaited, /start and /cancel at the ends
DataUpdates(c) ==
    {TextUpdate(c, t, AllGood, FALSE) :
        t \in IF conv[c] = END THEN {CMD_START}
              ELSE (kbd[c] \ NavInFreeText(c)) \cup DataTyped(c)
                   \cup IF conv[c] = "MAIN_MENU" THEN {CMD_CANCEL} ELSE {}}
    \cup {PhotoUpdate(c, AllGood, FALSE) : x \in IF conv[c] \in PhotoStates THEN {1} ELSE {}}

\* the field values a row or the new_account buffer holds
FilledColumns(row) == {k \in DOMAIN row \cap Columns : ~IsNone(row[k])}
RECURSIVE SumFilled(_, _)
SumFilled(tbl, ids) ==
    IF ids = {} THEN 0
    ELSE LET a == CHOOSE x \in ids : TRUE
         IN  Cardinality(FilledColumns(tbl[a])) + SumFilled(tbl, ids \ {a})
Filled(tbl, ud) ==
    SumFilled(tbl, DOMAIN tbl)
        + IF Has(ud, "new_account") THEN Cardinality(FilledColumns(ud["new_account"])) ELSE 0

NextData ==
    \E u \in DataUpdates(ADMIN_TELEGRAM_ID) :
        /\ Step(ADMIN_TELEGRAM_ID, u)
        /\ Within(MaxPersonSeq, MaxDataAccountSeq)
        /\ Filled(accounts', udata'[ADMIN_TELEGRAM_ID]) <= MaxFilled

SpecData == Init /\ [][NextData]_vars

\* the same two chats with two names to type: one renames or adds a person
\* while the other has the old list on screen
RenameUpdates(c) ==
    {TextUpdate(c, t, AllGood, FALSE) :
        t \in IF conv[c] = END THEN {CMD_START}
              ELSE ((kbd[c] \ NavInFreeText(c)) \ SharedAvoids(c))
                   \cup (IF conv[c] \in NameStates THEN DataNameTexts ELSE {})
                   \cup (IF conv[c] = "ADMIN_ADD_USER" THEN IdTexts ELSE {})
                   \cup (IF conv[c] = "MAIN_MENU" THEN {CMD_CANCEL} ELSE {})}
    \cup {PhotoUpdate(c, AllGood, FALSE) : x \in IF conv[c] \in PhotoStates THEN {1} ELSE {}}

NextRename ==
    \E c \in ChatIds : \E u \in RenameUpdates(c) :
        Step(c, u) /\ Within(MaxPersonSeq, MaxAccountSeq)

SpecRename == Init /\ [][NextRename]_vars

\* the states of the Delete flow
DeleteStates ==
    {"DELETE_CHOOSE_TYPE", "DELETE_CHOOSE_PERSON", "DELETE_CONFIRM_PERSON",
     "DELETE_CHOOSE_ACCOUNT_FOR_PERSON", "DELETE_CHOOSE_ACCOUNT", "DELETE_CONFIRM_ACCOUNT"}

\* one chat with two names to choose from, which may walk away from the
\* Delete flow by a command or a stray text
AbandonUpdates(c) ==
    {TextUpdate(c, t, AllGood, FALSE) :
        t \in IF conv[c] = END THEN {CMD_START}
              ELSE (kbd[c] \ NavInFreeText(c))
                   \cup (IF conv[c] \in NameStates THEN DataNameTexts ELSE {})
                   \cup (IF conv[c] = "ADMIN_ADD_USER" THEN IdTexts ELSE {})
                   \cup (IF conv[c] = "MAIN_MENU" THEN {CMD_CANCEL} ELSE {})}
    \cup {TextUpdate(c, t, AllGood, TRUE) :
            t \in IF conv[c] \in DeleteStates /\ detours < MaxDetour
                  THEN {CMD_START, JUNK} ELSE {}}
    \cup {PhotoUpdate(c, AllGood, FALSE) : x \in IF conv[c] \in PhotoStates THEN {1} ELSE {}}

NextAbandon ==
    \E u \in AbandonUpdates(ADMIN_TELEGRAM_ID) :
        Step(ADMIN_TELEGRAM_ID, u) /\ Within(MaxPersonSeq, MaxDataAccountSeq)

SpecAbandon == Init /\ [][NextAbandon]_vars

(***************************************************************************)
(* src/bot.py: a second program with a users table of its own.  An update  *)
(* is u = [user, conns, send]: conns is the number of get_conn() calls     *)
(* that succeed while it is handled, send whether replies are delivered.   *)
(* A callback result is b = [users, keyboard, out, raised].                *)
(***************************************************************************)
BotUsers == 1..MaxBotUser

\* update.effective_user.full_name
FullName(c) == <<"F", DigitTok(c)>>

BotProg == [users |-> bot_users, keyboard |-> bot_keyboard, out |-> <<>>, raised |-> FALSE]

BotRaise(b) == [b EXCEPT !.raised = TRUE]

\* reply_text
BotReply(b, u, tag) ==
    IF b.raised THEN b
    ELSE IF u.send THEN [b EXCEPT !.out = Append(@, tag)] ELSE BotRaise(b)

\* ensure_user inserting the row with access already granted
ensure_user_granting(b, u) ==
    IF u.conns < 1 THEN BotRaise(b)
    ELSE IF u.user \in DOMAIN b.users THEN b
    ELSE [b EXCEPT !.users = DictSet(@, u.user,
              [full_name |-> FullName(u.user), is_admin |-> u.user = ADMIN_ID,
               access_granted |-> TRUE])]

ensure_user(b, u) ==
    IF u.conns < 1 THEN BotRaise(b)
    ELSE IF u.user \in DOMAIN b.users THEN b
    ELSE [b EXCEPT !.users = DictSet(@, u.user,
              [full_name |-> FullName(u.user), is_admin |-> u.user = ADMIN_ID,
               access_granted |-> FALSE])]

bot_start(b0, u) ==
    LET b == ensure_user(b0, u) IN
    IF b.raised THEN b
    ELSE IF u.conns < 2 THEN BotRaise(b)
    ELSE LET user == b.users[u.user] IN
         IF user.is_admin
         THEN LET r == BotReply(b, u, "hello_admin") IN
              IF r.raised THEN r ELSE [r EXCEPT !.keyboard = TRUE]
         ELSE IF user.access_granted THEN BotReply(b, u, "choose_person")
         ELSE BotReply(BotReply(b, u, "no_access"), u, "unique_id")

\* one line of the list: full name, telegram id, status
UserLine(b, c) == <<b.users[c].full_name, c, b.users[c].access_granted>>

\* q.answer() needs no connection; the pattern ^admin_users$ is the only
\* callback data routed here
bot_admin_menu(b, u) ==
    IF ~u.send THEN BotRaise(b)
    ELSE IF u.conns < 1 THEN BotRaise(b)
    ELSE BotReply(b, u, <<"users">> \o <<{UserLine(b, c) : c \in DOMAIN b.users}>>)

BotEnvs == {[conns |-> n, send |-> d] : n \in 0..2, d \in BOOLEAN}
BotUpdates(c) == {[user |-> c, conns |-> e.conns, send |-> e.send] : e \in BotEnvs}

BotCommit(u, h, r) ==
    /\ bot_users' = r.users
    /\ bot_keyboard' = r.keyboard
    /\ bot_last' = [user |-> u.user, handler |-> h, known |-> u.user \in DOMAIN bot_users,
                    out |-> r.out, raised |-> r.raised]
    /\ UNCHANGED main_vars

\* /start from user c
BotStart(c) ==
    \E u \in BotUpdates(c) : \E r \in {bot_start(BotProg, u)} : BotCommit(u, "start", r)

\* user c presses the 'admin_users' button of a message that carries it
BotAdminUsers(c) ==
    /\ bot_keyboard
    /\ \E u \in BotUpdates(c) : \E r \in {bot_admin_menu(BotProg, u)} :
           BotCommit(u, "admin_menu", r)

\* rows ensure_user created in earlier runs, access granted to some of them
\* by whoever administers the database
BotRows ==
    {[c \in S |-> [full_name |-> FullName(c), is_admin |-> c = ADMIN_ID,
                   access_granted |-> c \in G]] :
        S \in SUBSET BotUsers, G \in SUBSET BotUsers}

InitBot ==
    /\ MainInit
    /\ bot_users \in BotRows
    /\ bot_keyboard = FALSE
    /\ bot_last = BotIdle

NextBot == \E c \in BotUsers : BotStart(c) \/ BotAdminUsers(c)

SpecBot == InitBot /\ [][NextBot]_vars

(***************************************************************************)
(* Properties.  last' is the update a step handles; the unprimed tables    *)
(* are the database as that update found it.                               *)
(***************************************************************************)
\* the chat whose update the step handles
Actor == last'.chat

\* C1: with the database reachable, a /start from chat U puts U's
\* conversation in MAIN_MENU if and only if a users row for U exists at that
\* moment, and otherwise ends the conversation; start adds no telegram_id to
\* users and removes none, and leaves every other chat's row as it was.
C1_StartGate ==
    [][(last'.handler = "start" /\ last'.text = CMD_START /\ ~last'.dbfail) =>
          /\ (Actor \in DOMAIN users => conv'[Actor] = "MAIN_MENU")
          /\ (Actor \notin DOMAIN users => conv'[Actor] = END)
          /\ DOMAIN users' = DOMAIN users
          /\ \A d \in DOMAIN users \ {Actor} : users'[d] = users[d]]_vars

\* a chat other than the admin's was let in by /start, and its row carries its first name
C1_Witness ==
    /\ last.handler = "start" /\ last.text = CMD_START /\ last.from = END
    /\ last.chat # ADMIN_TELEGRAM_ID
    /\ conv[last.chat] = "MAIN_MENU"
    /\ last.chat \in DOMAIN users /\ users[last.chat] = FirstName(last.chat)

\* C2: in bot.py a /start that is answered leaves exactly one users row for
\* its sender; a sender without a row gets one with access_granted false and
\* no other row changes; while access_granted is false the answer is the
\* access-denied reply and never the approved or the admin menu, except that
\* the configured ADMIN_ID gets the admin menu, on its first /start too.
C2_PendingGate ==
    [][bot_last'.handler = "start" =>
          LET c == bot_last'.user IN
          /\ \A d \in DOMAIN bot_users : d \in DOMAIN bot_users' /\ bot_users'[d] = bot_users[d]
          /\ DOMAIN bot_users' \subseteq DOMAIN bot_users \cup {c}
          /\ (c \in DOMAIN bot_users' \ DOMAIN bot_users => ~bot_users'[c].access_granted)
          /\ (~bot_last'.raised =>
                /\ c \in DOMAIN bot_users'
                /\ (c = ADMIN_ID => bot_last'.out = <<"hello_admin">>)
                /\ (c # ADMIN_ID /\ ~bot_users'[c].access_granted =>
                        bot_last'.out = <<"no_access", "unique_id">>))
          /\ (c # ADMIN_ID /\ (c \in DOMAIN bot_users' => ~bot_users'[c].access_granted) =>
                \A i \in 1..Len(bot_last'.out) :
                    bot_last'.out[i] \notin {"hello_admin", "choose_person"})]_vars

\* an unknown user other than the admin has sent /start: it has a row without
\* access and was answered with the access-denied reply
C2_Witness ==
    /\ bot_last.handler = "start" /\ ~bot_last.known /\ ~bot_last.raised
    /\ bot_last.user # ADMIN_ID
    /\ bot_last.user \in DOMAIN bot_users
    /\ ~bot_users[bot_last.user].access_granted
    /\ bot_last.out = <<"no_access", "unique_id">>

\* C3: an input of a chat that has no users row when the input arrives,
\* whatever state its conversation is in, is refused as at /start: it
\* inserts, updates and deletes nothing in persons and accounts and renders
\* no account details.
C3_UnauthorisedRefused ==
    [][Actor \notin DOMAIN users =>
          /\ persons' = persons
          /\ accounts' = accounts
          /\ IsNone(last'.shown)]_vars

\* C4: when a user other than the admin, who has a users row, selects the
\* Admin entry in MAIN_MENU, the bot replies permission-denied, the
\* conversation stays in MAIN_MENU, and users and the user's user_data are
\* unchanged.
C4_AdminDenied ==
    [][(last'.text = B_ADMIN /\ last'.from = "MAIN_MENU"
            /\ Actor # ADMIN_TELEGRAM_ID /\ Actor \in DOMAIN users) =>
          /\ last'.handler = "admin_menu"
          /\ last'.out = <<"admin_only">>
          /\ conv'[Actor] = "MAIN_MENU"
          /\ users' = users
          /\ udata'[Actor] = udata[Actor]]_vars

\* an authorised chat other than the admin's has pressed Admin in MAIN_MENU and was denied
C4_Witness ==
    /\ last.text = B_ADMIN /\ last.from = "MAIN_MENU" /\ last.handler = "admin_menu"
    /\ last.chat # ADMIN_TELEGRAM_ID /\ last.chat \in DOMAIN users
    /\ last.out = <<"admin_only">>
    /\ conv[last.chat] = "MAIN_MENU"

\* C5: no text sent in ADMIN_REMOVE_USER deletes the admin's row: the admin
\* has a users row in every reachable state.
C5_AdminKept == ADMIN_TELEGRAM_ID \in DOMAIN users

\* the states in which every text is an option the state expects
AnyTextStates == NameStates \cup ValueStates

\* C6: in every state that expects particular options, a text that is none of
\* them leaves the conversation in the same state and writes nothing to the
\* database or to user_data (the database being reachable).
C6_SelfLoop ==
    [][(last'.text = JUNK /\ last'.from \in States \ AnyTextStates /\ ~last'.dbfail) =>
          /\ conv'[Actor] = last'.from
          /\ persons' = persons /\ accounts' = accounts
          /\ DOMAIN users' = DOMAIN users
          /\ udata'[Actor] = udata[Actor]]_vars

\* C7: in every state, the HOME_BUTTON text takes a user who has a users row
\* to MAIN_MENU with user_data empty and writes nothing to persons or
\* accounts.
C7_Home ==
    [][(last'.text = HOME_BUTTON /\ last'.from # END
            /\ Actor \in DOMAIN users /\ ~last'.dbfail) =>
          /\ conv'[Actor] = "MAIN_MENU"
          /\ udata'[Actor] = EmptyDict
          /\ persons' = persons /\ accounts' = accounts]_vars

\* C8: in every state, /cancel takes a user who has a users row to MAIN_MENU
\* with user_data empty and writes nothing to persons or accounts.
C8_Cancel ==
    [][(last'.text = CMD_CANCEL /\ last'.from # END
            /\ Actor \in DOMAIN users /\ ~last'.dbfail) =>
          /\ conv'[Actor] = "MAIN_MENU"
          /\ udata'[Actor] = EmptyDict
          /\ persons' = persons /\ accounts' = accounts]_vars

\* the parent state the claim names for each state
BackParent ==
    [st \in {"ADMIN_ADD_USER", "ADMIN_REMOVE_USER", "VIEW_CHOOSE_ACCOUNT",
             "ADD_CHOOSE_PERSON_TYPE", "DELETE_CHOOSE_TYPE", "CHANGE_CHOOSE_PERSON",
             "ADD_NEW_PERSON_NAME", "ADD_CHOOSE_EXISTING_PERSON", "ADD_ACCOUNT_BANK",
             "ADD_ACCOUNT_NUMBER", "ADD_ACCOUNT_CARD", "ADD_ACCOUNT_SHABA",
             "ADD_ACCOUNT_PHOTO", "DELETE_CHOOSE_PERSON", "DELETE_CHOOSE_ACCOUNT_FOR_PERSON",
             "CHANGE_CHOOSE_TARGET", "CHANGE_PROMPT_PERSON_NAME", "CHANGE_CHOOSE_ACCOUNT",
             "CHANGE_CHOOSE_FIELD", "CHANGE_PROMPT_FIELD_VALUE"} |->
        CASE st \in {"ADMIN_ADD_USER", "ADMIN_REMOVE_USER"} -> "ADMIN_MENU"
          [] st = "VIEW_CHOOSE_ACCOUNT" -> "VIEW_CHOOSE_PERSON"
          [] st \in {"ADD_CHOOSE_PERSON_TYPE", "DELETE_CHOOSE_TYPE", "CHANGE_CHOOSE_PERSON"}
               -> "EDIT_MENU"
          [] st \in {"DELETE_CHOOSE_PERSON", "DELETE_CHOOSE_ACCOUNT_FOR_PERSON"}
               -> "DELETE_CHOOSE_TYPE"
          [] st = "CHANGE_CHOOSE_TARGET" -> "CHANGE_CHOOSE_PERSON"
          [] st \in {"CHANGE_PROMPT_PERSON_NAME", "CHANGE_CHOOSE_ACCOUNT"}
               -> "CHANGE_CHOOSE_TARGET"
          [] st = "CHANGE_CHOOSE_FIELD" -> "CHANGE_CHOOSE_ACCOUNT"
          [] st = "CHANGE_PROMPT_FIELD_VALUE" -> "CHANGE_CHOOSE_FIELD"
          [] OTHER -> "ADD_CHOOSE_PERSON_TYPE"]

\* C9: in every state whose keyboard offers BACK_BUTTON, the BACK_BUTTON text
\* moves the conversation to the parent state the claim names and writes
\* nothing to the database.
C9_Back ==
    [][(last'.text = BACK_BUTTON /\ BACK_BUTTON \in kbd[Actor]
            /\ last'.from \in DOMAIN BackParent /\ ~last'.dbfail) =>
          /\ conv'[Actor] = BackParent[last'.from]
          /\ persons' = persons /\ accounts' = accounts
          /\ users' = users]_vars

\* the callbacks at which the claim lets rows change
TerminalSaves ==
    {"add_account_get_photo_and_save", "delete_execute_person_deletion",
     "delete_execute_account_deletion", "change_save_person_name",
     "change_save_field_value"}

\* one row inserted into tbl
OneInsert(tbl, tbl2) ==
    \E k \in DOMAIN tbl2 \ DOMAIN tbl : tbl2 = DictSet(tbl, k, tbl2[k])
\* one row of tbl updated
OneUpdate(tbl, tbl2) ==
    /\ DOMAIN tbl2 = DOMAIN tbl
    /\ \E k \in DOMAIN tbl : \A j \in DOMAIN tbl \ {k} : tbl2[j] = tbl[j]
\* one row of tbl deleted
OneDelete(tbl, tbl2) ==
    \E k \in DOMAIN tbl : tbl2 = DictPop(tbl, k)

\* C10 as stated: rows of persons and accounts change only in a terminal
\* save, which then puts the conversation in EDIT_MENU.
C10_OnlyTerminalSaves ==
    [][(persons' # persons \/ accounts' # accounts) =>
          /\ last'.handler \in TerminalSaves
          /\ conv'[Actor] = "EDIT_MENU"]_vars

\* C10 amended: rows of persons and accounts change only in a terminal save or
\* in add_save_new_person_and_prompt_bank.  A terminal save performs one
\* write (one row inserted, updated or deleted, a deleted person taking its
\* accounts along) and puts the conversation in EDIT_MENU; the insert of the
\* new person goes on to ADD_ACCOUNT_BANK and leaves accounts alone.  Nothing
\* else, leaving an Add flow included, changes a row.
C10_WritesOnlyAtSaves ==
    [][(persons' # persons \/ accounts' # accounts) =>
          \/ /\ last'.handler = "add_save_new_person_and_prompt_bank"
             /\ OneInsert(persons, persons') /\ accounts' = accounts
             /\ conv'[Actor] = "ADD_ACCOUNT_BANK"
          \/ /\ last'.handler \in TerminalSaves
             /\ conv'[Actor] = "EDIT_MENU"
             /\ CASE last'.handler = "add_account_get_photo_and_save" ->
                       persons' = persons /\ OneInsert(accounts, accounts')
                  [] last'.handler = "delete_execute_person_deletion" ->
                       /\ OneDelete(persons, persons')
                       /\ \A a \in DOMAIN accounts :
                             IF accounts[a].person_id \in DOMAIN persons'
                             THEN a \in DOMAIN accounts' /\ accounts'[a] = accounts[a]
                             ELSE a \notin DOMAIN accounts'
                       /\ DOMAIN accounts' \subseteq DOMAIN accounts
                  [] last'.handler = "delete_execute_account_deletion" ->
                       persons' = persons /\ OneDelete(accounts, accounts')
                  [] last'.handler = "change_save_person_name" ->
                       OneUpdate(persons, persons') /\ accounts' = accounts
                  [] OTHER ->
                       persons' = persons /\ OneUpdate(accounts, accounts')]_vars

\* an Add flow was left by /cancel after its person was inserted and before
\* an account was saved: the person is there, accounts is as it was
C10_Witness ==
    /\ last.handler = "cancel" /\ last.from = "ADD_ACCOUNT_BANK"
    /\ DOMAIN persons # {}
    /\ accounts = EmptyDict

\* the two states that ask for a deletion to be confirmed
ConfirmStates == {"DELETE_CONFIRM_PERSON", "DELETE_CONFIRM_ACCOUNT"}

\* C11: a row leaves persons or accounts only on the yes-delete caption sent
\* in DELETE_CONFIRM_PERSON or DELETE_CONFIRM_ACCOUNT; the no-cancel caption
\* and every other input in those two states leave persons and accounts as
\* they were; the no-cancel caption puts the conversation in EDIT_MENU with no
\* pending deletion target in user_data.
C11_DeleteGated ==
    [][/\ (~(DOMAIN persons \subseteq DOMAIN persons')
              \/ ~(DOMAIN accounts \subseteq DOMAIN accounts')) =>
             last'.text = B_YES /\ last'.from \in ConfirmStates
       /\ (last'.from \in ConfirmStates /\ last'.text # B_YES) =>
             persons' = persons /\ accounts' = accounts
       /\ (last'.from \in ConfirmStates /\ last'.text = B_NO) =>
             /\ conv'[Actor] = "EDIT_MENU"
             /\ ~Has(udata'[Actor], "person_to_delete")
             /\ ~Has(udata'[Actor], "account_to_delete")]_vars

\* the deletion of a person was called off at the confirmation: the person is
\* still there and the conversation is back in EDIT_MENU with nothing pending
C11_Witness ==
    /\ last.handler = "delete_cancel" /\ last.text = B_NO
    /\ last.from = "DELETE_CONFIRM_PERSON"
    /\ DOMAIN persons # {}
    /\ conv[last.chat] = "EDIT_MENU"
    /\ ~Has(udata[last.chat], "person_to_delete")

\* the reply tag is among the replies of the update handled last
Said(l, tag) == \E i \in 1..Len(l.out) : l.out[i] = tag

PersonPickStates ==
    {"VIEW_CHOOSE_PERSON", "CHANGE_CHOOSE_PERSON", "DELETE_CHOOSE_PERSON",
     "DELETE_CHOOSE_ACCOUNT_FOR_PERSON"}
AccountPickStates == {"VIEW_CHOOSE_ACCOUNT", "CHANGE_CHOOSE_ACCOUNT", "DELETE_CHOOSE_ACCOUNT"}

\* the person id a View, Change or Delete step of chat c works with, taken from
\* the lists and selections cached in its user_data: an optional id
UsedPerson(c, st, text) ==
    IF st \in PersonPickStates THEN Lookup([ud |-> udata[c]], "persons_list", text)
    ELSE IF st \in {"CHANGE_CHOOSE_TARGET", "CHANGE_PROMPT_PERSON_NAME"}
            /\ Has(udata[c], "change_person")
    THEN Some(udata[c]["change_person"].id)
    ELSE IF st = "DELETE_CONFIRM_PERSON" /\ Has(udata[c], "person_to_delete")
    THEN Some(udata[c]["person_to_delete"].id)
    ELSE None

\* the account id such a step works with
UsedAccount(c, st, text) ==
    IF st \in AccountPickStates THEN Lookup([ud |-> udata[c]], "accounts_list", text)
    ELSE IF st \in {"CHANGE_CHOOSE_FIELD", "CHANGE_PROMPT_FIELD_VALUE"}
            /\ Has(udata[c], "change_account_id")
    THEN Some(udata[c]["change_account_id"])
    ELSE IF st = "DELETE_CONFIRM_ACCOUNT" /\ Has(udata[c], "account_to_delete")
    THEN Some(udata[c]["account_to_delete"].id)
    ELSE None

\* the callbacks of the View, Change and Delete flows that work with an id
IdSteps ==
    {"view_choose_account", "view_display_account_details",
     "change_choose_target", "change_prompt_person_name", "change_save_person_name",
     "change_choose_account", "change_choose_field", "change_prompt_field_value",
     "change_save_field_value",
     "delete_confirm_person", "delete_execute_person_deletion", "delete_choose_account",
     "delete_confirm_account", "delete_execute_account_deletion"}

\* the step is one of those and works with a cached id whose row is gone
StaleStep ==
    LET p == UsedPerson(Actor, last'.from, last'.text)
        a == UsedAccount(Actor, last'.from, last'.text)
    IN  /\ last'.handler \in IdSteps
        /\ \/ ~IsNone(p) /\ The(p) \notin DOMAIN persons
           \/ ~IsNone(a) /\ The(a) \notin DOMAIN accounts

\* C12: a confirmed delete of person P leaves no accounts row with person_id P
\* (no accounts row ever points at a missing person); a View, Change or Delete
\* step of any session that works with a cached id of a deleted person or
\* account finds nothing (View answers no-accounts or account-not-found, no
\* details are rendered, no row changes), raises nothing and leaves the
\* conversation in one of its states.
C12_StaleIdsHarmless ==
    [][/\ \A a \in DOMAIN accounts' : accounts'[a].person_id \in DOMAIN persons'
       /\ (last'.handler = "delete_execute_person_deletion" /\ Said(last', "person_deleted")) =>
             LET P == udata[Actor]["person_to_delete"].id
             IN  /\ P \notin DOMAIN persons'
                 /\ \A a \in DOMAIN accounts' : accounts'[a].person_id # P
       /\ StaleStep =>
             /\ ~last'.raised
             /\ conv'[Actor] \in States
             /\ persons' = persons /\ accounts' = accounts
             /\ IsNone(last'.shown)
             /\ (last'.from = "VIEW_CHOOSE_PERSON" => Said(last', "no_accounts"))
             /\ (last'.from = "VIEW_CHOOSE_ACCOUNT" => Said(last', "account_not_found"))]_vars

\* a session chose in View a person from its cached list after another
\* session had deleted that person and its account
C12_Witness ==
    /\ last.handler = "view_choose_account" /\ Said(last, "no_accounts")
    /\ Has(udata[last.chat], "selected_person_id")
    /\ udata[last.chat]["selected_person_id"] \notin DOMAIN persons
    /\ aseq > 0 /\ accounts = EmptyDict

\* the ids of the accounts View lists under person pid when the table is acc:
\* the accounts_list that get_accounts_for_person_from_db builds
ViewOf(acc, pid) ==
    LET s == get_accounts_for_person_from_db([accounts |-> acc, ud |-> EmptyDict],
                                             [db |-> TRUE], Some(pid))
        list == s.ud["accounts_list"]
    IN  {list[k] : k \in DOMAIN list}

AddFieldSteps ==
    {"add_account_get_bank", "add_account_get_number", "add_account_get_card",
     "add_account_get_shaba"}

\* C13: in a completed Add flow the person chosen is the one whose name was
\* entered (new person) or selected (existing person) and stays the chosen
\* one through the field steps; the account the save inserts is listed by
\* View under that person and under no other person; an account keeps being
\* listed under the same person while both rows exist.
C13_ListedUnderChosen ==
    [][/\ (last'.handler = "add_save_new_person_and_prompt_bank"
              /\ Said(last', "person_added")) =>
             \E p \in DOMAIN persons' \ DOMAIN persons :
                 /\ persons'[p] = Strip(last'.text)
                 /\ udata'[Actor]["new_account_person_id"] = p
       /\ (last'.handler = "add_set_existing_person_and_prompt_bank"
              /\ conv'[Actor] = "ADD_ACCOUNT_BANK") =>
             LET p == udata'[Actor]["new_account_person_id"]
             IN  p \in DOMAIN persons /\ persons[p] = last'.text
       /\ (last'.handler \in AddFieldSteps /\ ~last'.raised) =>
             /\ Has(udata[Actor], "new_account_person_id")
             /\ udata'[Actor]["new_account_person_id"] = udata[Actor]["new_account_person_id"]
       /\ (last'.handler = "add_account_get_photo_and_save" /\ Said(last', "account_saved")) =>
             LET chosen == udata[Actor]["new_account_person_id"]
             IN  /\ chosen \in DOMAIN persons'
                 /\ \E a \in DOMAIN accounts' \ DOMAIN accounts :
                       \A p \in DOMAIN persons' : a \in ViewOf(accounts', p) <=> p = chosen
       /\ \A a \in DOMAIN accounts \cap DOMAIN accounts' :
             \A p \in DOMAIN persons \cap DOMAIN persons' :
                 a \in ViewOf(accounts', p) <=> a \in ViewOf(accounts, p)]_vars

\* an account was saved for the second of two persons and View lists it under
\* that person alone
C13_Witness ==
    /\ last.handler = "add_account_get_photo_and_save" /\ Said(last, "account_saved")
    /\ DOMAIN persons = {1, 2}
    /\ aseq \in DOMAIN accounts
    /\ aseq \in ViewOf(accounts, 2) /\ aseq \notin ViewOf(accounts, 1)

\* C14: change_save_field_value changes at most the column selected at
\* CHANGE_CHOOSE_FIELD of the account selected at CHANGE_CHOOSE_ACCOUNT, which
\* then holds the value sent; every other column of that account, every other
\* account, persons and users are as they were.
C14_FieldFrame ==
    [][/\ (last'.handler = "change_choose_field" /\ conv'[Actor] = "CHANGE_CHOOSE_FIELD") =>
             \E a \in DOMAIN accounts :
                 /\ AccountKey(accounts[a], a) = last'.text
                 /\ udata'[Actor]["change_account_id"] = a
       /\ (last'.handler = "change_prompt_field_value"
              /\ conv'[Actor] = "CHANGE_PROMPT_FIELD_VALUE") =>
             udata'[Actor]["change_field"] = last'.text
       /\ last'.handler = "change_save_field_value" =>
             /\ persons' = persons /\ users' = users
             /\ DOMAIN accounts' = DOMAIN accounts
             /\ (accounts' # accounts \/ Said(last', "field_updated")) =>
                   LET aid == udata[Actor]["change_account_id"]
                       col == FIELD_TO_COLUMN_MAP[udata[Actor]["change_field"]]
                   IN  /\ \A a \in DOMAIN accounts : \A k \in DOMAIN accounts[a] :
                             (a # aid \/ k # col) => accounts'[a][k] = accounts[a][k]
                       /\ aid \in DOMAIN accounts =>
                             accounts'[aid][col] =
                                 IF last'.text = SKIP_BUTTON THEN None
                                 ELSE IF col = "card_photo_id" THEN last'.photo
                                 ELSE Some(last'.text)]_vars

\* a typed value was saved into a column of one of two accounts while the
\* other account holds a value too
C14_Witness ==
    /\ last.handler = "change_save_field_value" /\ Said(last, "field_updated")
    /\ last.text = VALUE
    /\ Cardinality(DOMAIN accounts) = MaxDataAccountSeq
    /\ \A a \in DOMAIN accounts : FilledColumns(accounts[a]) # {}

\* the column each text step of the Add flow fills
StepColumn ==
    [h \in AddFieldSteps |->
        CASE h = "add_account_get_bank" -> "bank_name"
          [] h = "add_account_get_number" -> "account_number"
          [] h = "add_account_get_card" -> "card_number"
          [] OTHER -> "shaba_number"]
TextColumns == {StepColumn[h] : h \in AddFieldSteps}
AddFieldStates ==
    {"ADD_ACCOUNT_BANK", "ADD_ACCOUNT_NUMBER", "ADD_ACCOUNT_CARD", "ADD_ACCOUNT_SHABA",
     "ADD_ACCOUNT_PHOTO"}

\* what an accepted input stores: null for the skip caption, else the photo's
\* file id or the text
StoredFor(l, col) ==
    IF l.text = SKIP_BUTTON THEN None
    ELSE IF col = "card_photo_id" THEN l.photo ELSE Some(l.text)

\* C15: in the Add flow each text step puts into the new_account buffer null
\* when the skip caption was sent and the text sent otherwise, and leaves the
\* other buffered fields and the tables alone; only these steps keep the
\* conversation inside the field steps; the save inserts a row whose four
\* text columns are the buffered ones, each filled at its step, and whose
\* photo column is null iff the skip caption was sent, the photo's file id
\* otherwise; in the Change flow the saved column is null iff the skip caption
\* was sent and holds the text or photo otherwise; an input that is rejected
\* (a text where a photo is required, a photo where a text is) stores nothing.
C15_NullIffSkip ==
    [][/\ (last'.handler \in AddFieldSteps /\ ~last'.raised) =>
             LET col == StepColumn[last'.handler]
                 old == udata[Actor]["new_account"]
                 new == udata'[Actor]["new_account"]
             IN  /\ new = DictSet(old, col, StoredFor(last', col))
                 /\ (IsNone(new[col]) <=> last'.text = SKIP_BUTTON)
                 /\ accounts' = accounts
       /\ (last'.from \in AddFieldStates /\ conv'[Actor] \in AddFieldStates) =>
             last'.handler \in AddFieldSteps \cup {"add_account_get_photo_and_save"}
       /\ (conv'[Actor] = "ADD_ACCOUNT_PHOTO") =>
             DOMAIN udata'[Actor]["new_account"] = TextColumns
       /\ last'.handler = "add_account_get_photo_and_save" =>
             IF IsText(last') /\ last'.text # SKIP_BUTTON
             THEN /\ accounts' = accounts /\ udata'[Actor] = udata[Actor]
                  /\ conv'[Actor] = "ADD_ACCOUNT_PHOTO"
             ELSE Said(last', "account_saved") =>
                    \E a \in DOMAIN accounts' \ DOMAIN accounts :
                        /\ \A k \in TextColumns :
                              accounts'[a][k] = udata[Actor]["new_account"][k]
                        /\ accounts'[a].card_photo_id = StoredFor(last', "card_photo_id")
                        /\ (IsNone(accounts'[a].card_photo_id) <=> last'.text = SKIP_BUTTON)
       /\ last'.handler = "change_save_field_value" =>
             IF Said(last', "need_photo") \/ Said(last', "need_text")
             THEN /\ accounts' = accounts /\ udata'[Actor] = udata[Actor]
                  /\ conv'[Actor] = "CHANGE_PROMPT_FIELD_VALUE"
             ELSE Said(last', "field_updated") =>
                    LET aid == udata[Actor]["change_account_id"]
                        col == FIELD_TO_COLUMN_MAP[udata[Actor]["change_field"]]
                    IN  aid \in DOMAIN accounts' =>
                          /\ accounts'[aid][col] = StoredFor(last', col)
                          /\ (IsNone(accounts'[aid][col]) <=> last'.text = SKIP_BUTTON)]_vars

\* an account was saved with a typed value in one text column and the skip
\* caption sent for another
C15_Witness ==
    /\ last.handler = "add_account_get_photo_and_save" /\ Said(last, "account_saved")
    /\ aseq \in DOMAIN accounts
    /\ \E k1, k2 \in TextColumns :
          IsNone(accounts[aseq][k1]) /\ accounts[aseq][k2] = Some(VALUE)

\* the canonical form of an IBAN text: the IR prefix added when it is absent
WithIR(t) == IF t # <<>> /\ t[1] = "IR" THEN t ELSE <<"IR">> \o t

\* C16: the IBAN is canonicalized before it is stored: every stored
\* shaba_number carries the IR prefix, once; and an edit whose text is the
\* stored IBAN's digits with or without a literal IR prefix leaves the stored
\* value what it was.
C16_IbanCanonical ==
    [][/\ \A a \in DOMAIN accounts' :
             LET v == accounts'[a].shaba_number
             IN  ~IsNone(v) =>
                   /\ The(v) = WithIR(The(v))
                   /\ ~(Len(The(v)) >= 2 /\ The(v)[2] = "IR")
       /\ (last'.handler = "change_save_field_value" /\ Said(last', "field_updated")
              /\ udata[Actor]["change_field"] = F_SHABA) =>
             LET aid == udata[Actor]["change_account_id"]
             IN  (/\ aid \in DOMAIN accounts
                  /\ ~IsNone(accounts[aid].shaba_number)
                  /\ WithIR(The(accounts[aid].shaba_number)) = WithIR(last'.text)) =>
                    accounts'[aid].shaba_number = accounts[aid].shaba_number]_vars

\* the persons rows that carry the name
RowsNamed(tbl, name) == {p \in DOMAIN tbl : tbl[p] = name}

\* C17: when the name sent in ADD_NEW_PERSON_NAME is the name of a persons
\* row (the database being reachable), the reply is the duplicate-name
\* message, no row is inserted (the name still has exactly one row), the
\* conversation stays in ADD_NEW_PERSON_NAME and user_data holds neither
\* new_account nor new_account_person_id.
C17_DuplicateName ==
    [][(/\ last'.handler = "add_save_new_person_and_prompt_bank" /\ ~last'.dbfail
        /\ RowsNamed(persons, Strip(last'.text)) # {}) =>
          /\ Said(last', "person_exists")
          /\ persons' = persons /\ accounts' = accounts
          /\ Cardinality(RowsNamed(persons', Strip(last'.text))) = 1
          /\ conv'[Actor] = "ADD_NEW_PERSON_NAME"
          /\ ~Has(udata'[Actor], "new_account")
          /\ ~Has(udata'[Actor], "new_account_person_id")]_vars

\* the name of the one person there is was sent again for a new person and
\* was refused
C17_Witness ==
    /\ last.handler = "add_save_new_person_and_prompt_bank" /\ Said(last, "person_exists")
    /\ conv[last.chat] = "ADD_NEW_PERSON_NAME"
    /\ Cardinality(RowsNamed(persons, Strip(last.text))) = 1
    /\ pseq > Cardinality(DOMAIN persons)

\* C18: a confirmed delete whose target row is gone when the delete runs (the
\* database being reachable) is not answered with the reply a delete that
\* removed a row is answered with.
C18_StaleDeleteReported ==
    [][/\ (/\ last'.handler = "delete_execute_person_deletion" /\ ~last'.dbfail
           /\ Has(udata[Actor], "person_to_delete")
           /\ udata[Actor]["person_to_delete"].id \notin DOMAIN persons) =>
             ~Said(last', "person_deleted")
       /\ (/\ last'.handler = "delete_execute_account_deletion" /\ ~last'.dbfail
           /\ Has(udata[Actor], "account_to_delete")
           /\ udata[Actor]["account_to_delete"].id \notin DOMAIN accounts) =>
             ~Said(last', "account_deleted")]_vars

\* the replies the initiating admin receives: the replies of the update
\* without the notices sent to the other user's chat
ToAdmin(tag) == tag \notin {"notify_granted", "notify_revoked"}
AdminReplies(l) == SelectSeq(l.out, ToAdmin)
\* what the admin receives when the notice was delivered
DeliveredReplies == {<<"user_added_notified", "admin_menu">>, <<"user_removed", "admin_menu">>}

\* C19: when the notice of a grant (admin_add_user) or of a revoke
\* (admin_remove_user) cannot be delivered, the users row is inserted or
\* deleted all the same, the conversation goes on to ADMIN_MENU, and the
\* admin's replies differ from those of a delivered notice (the failure is
\* reported).
C19_NotifyFailureSoft ==
    [][(last'.handler \in {"admin_add_user", "admin_remove_user"} /\ last'.sendfail) =>
          /\ ~last'.raised
          /\ conv'[Actor] = "ADMIN_MENU"
          /\ (last'.handler = "admin_add_user" =>
                The(ParseInt(last'.text)) \in DOMAIN users' \ DOMAIN users)
          /\ (last'.handler = "admin_remove_user" =>
                The(RemoveTarget(last'.text)) \in DOMAIN users \ DOMAIN users')
          /\ AdminReplies(last') \notin DeliveredReplies]_vars

\* C20: when a connection to the database is refused while an update is
\* handled, the user receives the database-error reply, no table changes,
\* and the conversation state and user_data of the chat are what they were
\* before the update.
C20_DbDownPreserves ==
    [][last'.dbfail =>
          /\ Said(last', "db_error")
          /\ users' = users /\ persons' = persons /\ accounts' = accounts
          /\ conv'[Actor] = conv[Actor]
          /\ udata'[Actor] = udata[Actor]]_vars

DigitsOnly(t) == t # <<>> /\ \A i \in 1..Len(t) : t[i] \in Digits

\* the step of chat c in state st stores a card number or an IBAN
FixedShapeStep(c, st) ==
    \/ st \in {"ADD_ACCOUNT_CARD", "ADD_ACCOUNT_SHABA"}
    \/ /\ st = "CHANGE_PROMPT_FIELD_VALUE" /\ Has(udata[c], "change_field")
       /\ udata[c]["change_field"] \in {F_CARD, F_SHABA}

\* C22: at a step that stores a card number or an IBAN (ADD_ACCOUNT_CARD,
\* ADD_ACCOUNT_SHABA, the Change flow on either field) a typed text that is
\* not digits only and not the skip caption is rejected: the conversation
\* stays in the same state and neither user_data nor the accounts table
\* takes the text.
C22_FixedShapeValidated ==
    [][(/\ FixedShapeStep(Actor, last'.from) /\ IsText(last')
        /\ last'.text \in {VALUE, IBAN}
        /\ ~DigitsOnly(last'.text)) =>
          /\ conv'[Actor] = last'.from
          /\ accounts' = accounts
          /\ udata'[Actor] = udata[Actor]]_vars

\* C23: a conversation in EDIT_MENU has an empty user_data: no persons_list,
\* accounts_list, new_account, person_to_delete, account_to_delete,
\* change_person, change_account_id or change_field is left from a flow.
C23_EditMenuClean ==
    \A c \in ChatIds : conv[c] = "EDIT_MENU" => udata[c] = EmptyDict

\* the Edit menu was reached at the end of a flow that had filled user_data:
\* a saved account, a confirmed delete, a saved field
C23_Witness ==
    /\ last.handler \in {"add_account_get_photo_and_save", "delete_execute_person_deletion",
                          "change_save_field_value"}
    /\ ~last.raised
    /\ conv[last.chat] = "EDIT_MENU"
    /\ udata[last.chat] = EmptyDict

\* C24: when the name sent in CHANGE_PROMPT_PERSON_NAME is the name of
\* another persons row (the database being reachable), no name changes, the
\* names stay pairwise distinct, and the user is asked again: the reply is
\* the duplicate-name message and the conversation stays in
\* CHANGE_PROMPT_PERSON_NAME with change_person kept.
C24_RenameClash ==
    [][(/\ last'.handler = "change_save_person_name" /\ ~last'.dbfail
        /\ Has(udata[Actor], "change_person")
        /\ \E p \in DOMAIN persons :
              /\ p # udata[Actor]["change_person"].id
              /\ persons[p] = Strip(last'.text)) =>
          /\ persons' = persons
          /\ \A p, q \in DOMAIN persons' : persons'[p] = persons'[q] => p = q
          /\ Said(last', "person_exists")
          /\ conv'[Actor] = "CHANGE_PROMPT_PERSON_NAME"
          /\ Has(udata'[Actor], "change_person")
          /\ udata'[Actor]["change_person"] = udata[Actor]["change_person"]]_vars

\* C25: a field save of the Change flow whose account was deleted after it
\* was selected (the database being reachable, the input accepted) is a
\* not-found error: no accounts row appears or changes, the reply is not
\* the success message, and the conversation falls back to a state of the
\* Change flow, the Edit menu or the main menu.
C25_StaleFieldSave ==
    [][(/\ last'.handler = "change_save_field_value" /\ ~last'.dbfail
        /\ Has(udata[Actor], "change_account_id") /\ Has(udata[Actor], "change_field")
        /\ udata[Actor]["change_account_id"] \notin DOMAIN accounts
        /\ ~Said(last', "need_photo") /\ ~Said(last', "need_text")) =>
          /\ accounts' = accounts
          /\ ~last'.raised
          /\ conv'[Actor] \in {"CHANGE_CHOOSE_PERSON", "CHANGE_CHOOSE_TARGET",
                                "CHANGE_CHOOSE_ACCOUNT", "EDIT_MENU", "MAIN_MENU"}
          /\ ~Said(last', "field_updated")]_vars

\* C26: in bot.py the users row a first /start creates has is_admin and
\* access_granted both true when the sender is the configured ADMIN_ID and
\* both false otherwise; at most one row has is_admin true and it is the
\* row of ADMIN_ID.
C26_AdminRowGranted ==
    [][/\ bot_last'.handler = "start" =>
             \A c \in DOMAIN bot_users' \ DOMAIN bot_users :
                 /\ c = bot_last'.user
                 /\ bot_users'[c].is_admin = (c = ADMIN_ID)
                 /\ bot_users'[c].access_granted = (c = ADMIN_ID)
       /\ \A c \in DOMAIN bot_users' : bot_users'[c].is_admin => c = ADMIN_ID]_vars

\* C27: with two chats adding and deleting on one database, every accounts
\* row references a persons row after every step; the save of an account
\* whose person (chosen from the list on screen) was deleted in the meantime
\* inserts no row, replies the save error and not the success message, and
\* ends in EDIT_MENU with user_data cleared.
C27_NoOrphanAccount ==
    [][/\ \A a \in DOMAIN accounts' : accounts'[a].person_id \in DOMAIN persons'
       /\ (/\ last'.handler = "add_account_get_photo_and_save" /\ ~last'.dbfail
           /\ (~IsText(last') \/ last'.text = SKIP_BUTTON)
           /\ Has(udata[Actor], "new_account_person_id")
           /\ udata[Actor]["new_account_person_id"] \notin DOMAIN persons) =>
             /\ accounts' = accounts
             /\ ~last'.raised
             /\ Said(last', "save_error") /\ ~Said(last', "account_saved")
             /\ conv'[Actor] = "EDIT_MENU"
             /\ udata'[Actor] = EmptyDict]_vars

\* the other chat deleted the person while the account's fields were being
\* entered: the save was refused and the tables hold neither the person nor
\* an account
C27_Witness ==
    /\ last.handler = "add_account_get_photo_and_save" /\ Said(last, "save_error")
    /\ conv[last.chat] = "EDIT_MENU"
    /\ persons = EmptyDict /\ accounts = EmptyDict
    /\ pseq > 0 /\ aseq > 0

\* the states of the admin flow and the callbacks registered in them, which
\* do not test is_admin themselves
AdminStates == {"ADMIN_MENU", "ADMIN_ADD_USER", "ADMIN_REMOVE_USER"}
AdminSteps ==
    {"admin_view_users", "admin_prompt_add_user", "admin_add_user",
     "admin_prompt_remove_user", "admin_remove_user"}

\* C28: the conversation of a chat other than ADMIN_TELEGRAM_ID is never in
\* ADMIN_MENU, ADMIN_ADD_USER or ADMIN_REMOVE_USER; so the callbacks of these
\* states never run on another chat's input, and a users row is inserted or
\* deleted only by an input of the admin's chat.
C28_AdminStatesGated ==
    [][/\ \A c \in ChatIds \ {ADMIN_TELEGRAM_ID} : conv'[c] \notin AdminStates
       /\ (last'.handler \in AdminSteps => Actor = ADMIN_TELEGRAM_ID)
       /\ (DOMAIN users' # DOMAIN users =>
              Actor = ADMIN_TELEGRAM_ID /\ last'.handler \in {"admin_add_user", "admin_remove_user"})]_vars

\* while the admin's conversation is in the admin flow, another chat that
\* the admin had given access pressed Admin and is still at the main menu
C28_Witness ==
    /\ last.handler = "admin_menu" /\ last.chat # ADMIN_TELEGRAM_ID
    /\ Said(last, "admin_only")
    /\ conv[last.chat] = "MAIN_MENU"
    /\ conv[ADMIN_TELEGRAM_ID] \in AdminStates
    /\ DOMAIN users = ChatIds

\* the keys of the states map of the ConversationHandler
MappedStates == {st \in States : StateHandlers(st) # << >>}

\* C29: every state a callback returns is a key of the states map or END;
\* the declared constants CHANGE_SAVE_PERSON_NAME and CHANGE_SAVE_FIELD_VALUE,
\* which are not keys, are never the state of a conversation.
C29_ReturnsMapped ==
    /\ MappedStates = States \ {"CHANGE_SAVE_PERSON_NAME", "CHANGE_SAVE_FIELD_VALUE"}
    /\ \A c \in ChatIds : conv[c] \in MappedStates \cup {END}

\* a rename and a field save have been handled (the callbacks the two
\* unmapped constants are named after) and the conversation is in a state
\* of the map
C29_Witness ==
    /\ last.handler \in {"change_save_person_name", "change_save_field_value"}
    /\ ~last.raised
    /\ last.from \in {"CHANGE_PROMPT_PERSON_NAME", "CHANGE_PROMPT_FIELD_VALUE"}
    /\ conv[last.chat] \in MappedStates

\* the states of the Delete flow in which the target is still to be chosen
ChoosingStates == DeleteStates \ ConfirmStates

\* C30: a confirmed delete removes exactly the row selected last in
\* DELETE_CHOOSE_PERSON / DELETE_CHOOSE_ACCOUNT of the same conversation.  A
\* confirmation state is entered only by the selection, which writes the id
\* the pressed button stands for in the list on screen as the target; while
\* the conversation stays there the target does not change; the confirmed
\* delete removes the target's rows (the person and its accounts, or the
\* account) and no others; and while a target is still to be chosen
\* user_data holds no person_to_delete or account_to_delete of an earlier,
\* abandoned Delete flow.
C30_DeletesSelected ==
    [][/\ (conv'[Actor] = "DELETE_CONFIRM_PERSON" /\ last'.from # "DELETE_CONFIRM_PERSON") =>
             /\ last'.handler = "delete_confirm_person" /\ last'.from = "DELETE_CHOOSE_PERSON"
             /\ Some(udata'[Actor]["person_to_delete"].id) = Lookup(Prog(Actor), "persons_list", last'.text)
             /\ udata'[Actor]["person_to_delete"].name = last'.text
       /\ (conv'[Actor] = "DELETE_CONFIRM_ACCOUNT" /\ last'.from # "DELETE_CONFIRM_ACCOUNT") =>
             /\ last'.handler = "delete_confirm_account" /\ last'.from = "DELETE_CHOOSE_ACCOUNT"
             /\ Some(udata'[Actor]["account_to_delete"].id) = Lookup(Prog(Actor), "accounts_list", last'.text)
       /\ (conv'[Actor] \in ConfirmStates /\ last'.from = conv'[Actor]) =>
             udata'[Actor] = udata[Actor]
       /\ (last'.handler = "delete_execute_person_deletion" /\ Said(last', "person_deleted")) =>
             LET tgt == udata[Actor]["person_to_delete"].id
             IN  /\ last'.from = "DELETE_CONFIRM_PERSON"
                 /\ DOMAIN persons' = DOMAIN persons \ {tgt}
                 /\ DOMAIN accounts' = {a \in DOMAIN accounts : accounts[a].person_id # tgt}
                 /\ \A p \in DOMAIN persons' : persons'[p] = persons[p]
                 /\ \A a \in DOMAIN accounts' : accounts'[a] = accounts[a]
       /\ (last'.handler = "delete_execute_account_deletion" /\ Said(last', "account_deleted")) =>
             LET tgt == udata[Actor]["account_to_delete"].id
             IN  /\ last'.from = "DELETE_CONFIRM_ACCOUNT"
                 /\ persons' = persons
                 /\ DOMAIN accounts' = DOMAIN accounts \ {tgt}
                 /\ \A a \in DOMAIN accounts' : accounts'[a] = accounts[a]
       /\ (~(DOMAIN persons \subseteq DOMAIN persons') \/ ~(DOMAIN accounts \subseteq DOMAIN accounts')) =>
             last'.handler \in {"delete_execute_person_deletion", "delete_execute_account_deletion"}
       /\ conv'[Actor] \in ChoosingStates =>
             /\ ~Has(udata'[Actor], "person_to_delete")
             /\ ~Has(udata'[Actor], "account_to_delete")]_vars

\* a Delete flow was walked away from and, in a later one, the second of two
\* persons was selected and deleted: the first is still there
C30_Witness ==
    /\ last.handler = "delete_execute_person_deletion" /\ Said(last, "person_deleted")
    /\ detours = MaxDetour
    /\ DOMAIN persons = {1} /\ pseq = 2

\* C31: the persons row a confirmed delete removes carries, when it is
\* removed, the name the confirmation prompt showed to the deleting user
\* (the name kept in person_to_delete), also when another chat renamed the
\* person or added a person of the old name after the list was rendered.
C31_DeletesNamed ==
    [][(/\ last'.handler = "delete_execute_person_deletion" /\ Said(last', "person_deleted")
        /\ udata[Actor]["person_to_delete"].id \in DOMAIN persons) =>
          persons[udata[Actor]["person_to_delete"].id] = udata[Actor]["person_to_delete"].name]_vars

\* C32: when Edit-an-account is chosen in CHANGE_CHOOSE_TARGET for a person
\* that has no accounts (the database being reachable), the conversation is
\* back in CHANGE_CHOOSE_TARGET with change_person as it was, so that the
\* rename of the same person can still be chosen.
C32_NoAccountsBackToTarget ==
    [][(/\ last'.handler = "change_choose_account" /\ last'.from = "CHANGE_CHOOSE_TARGET"
        /\ ~last'.dbfail
        /\ Has(udata[Actor], "change_person")
        /\ AccountsOf(Prog(Actor), udata[Actor]["change_person"].id) = {}) =>
          /\ conv'[Actor] = "CHANGE_CHOOSE_TARGET"
          /\ Has(udata'[Actor], "change_person")
          /\ udata'[Actor]["change_person"] = udata[Actor]["change_person"]]_vars

\* C33: in bot.py the list of users (names, ids, access status) is sent in
\* answer to an 'admin_users' callback only when the requester's users row
\* has is_admin true; the callback of any other user is answered with no
\* user data (the list is the only reply admin_menu sends, so: with nothing).
C33_UserListAdminOnly ==
    (/\ bot_last.handler = "admin_menu"
     /\ ~(/\ bot_last.user \in DOMAIN bot_users
          /\ bot_users[bot_last.user].is_admin)) =>
       Len(bot_last.out) = 0

(***************************************************************************)
(* The way home.  The states registered with filters.TEXT | filters.PHOTO  *)
(* take every text, commands and the navigation captions included, so      *)
(* there the user skips the value (which completes the flow); everywhere   *)
(* else the user sends /start, which the fallbacks give to start.          *)
(***************************************************************************)
HomeText(st) == IF st \in PhotoStates THEN SKIP_BUTTON ELSE CMD_START

\* the Add flow is entered only while an account can still be inserted, so
\* that the bound on the sequence does not keep the save from running
HomeWithin ==
    /\ Within(MaxPersonSeq, MaxAccountSeq)
    /\ conv'[ADMIN_TELEGRAM_ID] \in AddFieldStates => aseq' < MaxAccountSeq
    /\ ADMIN_TELEGRAM_ID \in DOMAIN users'

\* the user heads for the main menu: /start, or the skip where every text is a value
HomeNow ==
    /\ conv[ADMIN_TELEGRAM_ID] \notin PhotoStates \cup {"MAIN_MENU"}
    /\ Step(ADMIN_TELEGRAM_ID, TextUpdate(ADMIN_TELEGRAM_ID, CMD_START, AllGood, FALSE))
    /\ HomeWithin
HomeSoon ==
    /\ conv[ADMIN_TELEGRAM_ID] \in PhotoStates
    /\ Step(ADMIN_TELEGRAM_ID, TextUpdate(ADMIN_TELEGRAM_ID, SKIP_BUTTON, AllGood, FALSE))
    /\ HomeWithin

\* an authorised user, the database reachable: any input the bot asks for,
\* and the way home from wherever the conversation is
HomeUpdates(c) ==
    {TextUpdate(c, t, AllGood, FALSE) :
        t \in ForwardTexts(c) \cup IF conv[c] = "MAIN_MENU" THEN {CMD_CANCEL} ELSE {}}
    \cup {PhotoUpdate(c, AllGood, FALSE) : x \in IF conv[c] \in PhotoStates THEN {1} ELSE {}}

NextHome ==
    \/ \E u \in HomeUpdates(ADMIN_TELEGRAM_ID) : Step(ADMIN_TELEGRAM_ID, u) /\ HomeWithin
    \/ HomeNow
    \/ HomeSoon

\* a user who wants to get home does not put it off for ever
SpecHome == Init /\ [][NextHome]_vars /\ SF_vars(HomeNow) /\ SF_vars(HomeSoon)

\* C34: no state of the conversation of an authorised user is a trap while
\* the database is reachable: wherever the conversation is, the user who
\* heads for the main menu (by /start, or by skipping the value in the two
\* states that take every text as the value) gets to MAIN_MENU.
C34_NoTrap ==
    (conv[ADMIN_TELEGRAM_ID] # "MAIN_MENU") ~> (conv[ADMIN_TELEGRAM_ID] = "MAIN_MENU")

\* the main menu was reached by /start from the confirmation of a delete,
\* with the target of the abandoned flow still in user_data
C34_Witness ==
    /\ last.handler = "start" /\ last.text = CMD_START
    /\ last.from = "DELETE_CONFIRM_ACCOUNT"
    /\ conv[ADMIN_TELEGRAM_ID] = "MAIN_MENU"
    /\ Has(udata[ADMIN_TELEGRAM_ID], "account_to_delete")

=============================================================================
